---- MODULE Spec2Model ----
(***************************************************************************)
(* Verification model of the smart-tourist-safety backend core:            *)
(*   - FallbackStore   (fallbackService: handleSOSFallback/getPendingAlert)*)
(*   - AlertDispatcher (realtimeService: registries, emitSOSAlert,         *)
(*                      emitAuthorityAlertToTourists)                      *)
(*   - RiskAggregator  (riskEngineService: updateRiskScores, processGrid)  *)
(* Each subsystem has its own specification over the shared variables.     *)
(***************************************************************************)
EXTENDS Integers, Sequences, FiniteSets, TLC

\* ------------------------------------------------------------------ bounds
\* number of distinct SOS alerts (each has a unique _id, put at most once)
MaxAlerts == 1
\* number of getPendingAlert calls that may be in flight / run in one behaviour
NumGetters == 2

\* number of client connections (socket objects) in one behaviour
MaxSockets == 2

AlertIds == 1..MaxAlerts
Getters == 1..NumGetters

\* FallbackStore (fallbackService)
VARIABLES
    redisStatus,   \* redisClient.status
    redisStore,    \* keys of the cache: alertId -> [val, ttl]
    logFile,       \* logs/fallback.log, a sequence of lines
    putPc,         \* per alert: position of its handleSOSFallback call
    putInfo,       \* per alert: how the call ended and which branch it took
    keyExpired,    \* keys whose one-hour TTL has run out
    getPc,         \* per getPendingAlert call: position
    getArg,        \* per call: the alertId argument
    getData,       \* per call: local alertData (the GET reply)
    getResult,     \* per call: the returned value
    getInfo        \* per call: bookkeeping of what the call observed

fbVars == <<redisStatus, redisStore, logFile, putPc, putInfo, keyExpired,
            getPc, getArg, getData, getResult, getInfo>>

\* AlertDispatcher (realtimeService)
VARIABLES
    io,                \* the Socket.IO server instance is set (init was called)
    sockState,         \* per socket: "new" | "connected" | "disconnected"
    sockData,          \* per socket: socket.data
    rooms,             \* Socket.IO rooms 'authorities' and 'tourists'
    authoritySockets,  \* Map userId -> Set of sockets
    touristSockets,    \* Map touristId -> Set of sockets
    touristOrder,      \* per touristId: the sockets of its Set in insertion order
    periodic,          \* the run of runPeriodicSafetyScoreUpdate: position and record
    touristLastScores, \* Map touristId -> last safety score
    pendingScore,      \* per socket: handler suspended in await calculateSafetyScore
    lastSOS,           \* outcome of the emitSOSAlert call of the latest step
    lastBroadcast,     \* outcome of the broadcast call of the latest step
    lastPush           \* the score push of the latest step: previous and new score

rtVars == <<io, sockState, sockData, rooms, authoritySockets, touristSockets,
            touristOrder, periodic,
            touristLastScores, pendingScore, lastSOS, lastBroadcast, lastPush>>

\* RiskAggregator (riskEngineService) and its collections
VARIABLES
    now,          \* Date.now(), in days
    sosAlerts,    \* SOSAlert documents with status 'new'
    incidents,    \* Incident documents
    riskGrid,     \* RiskGrid collection: gridId -> document
    passState,    \* updateRiskScores: "idle" | "running" | "complete" | "aborted"
    passActive,   \* activeGridIds of the current pass
    passQueue,    \* the part of activeGridIds the for-loop has not reached yet
    passDone,     \* cells whose processGrid call returned in the current pass
    passFailed,   \* cells whose processGrid call threw in the current pass
    lastRun       \* the latest processGrid run: its inputs and what it persisted

riskVars == <<now, sosAlerts, incidents, riskGrid, passState, passActive,
              passQueue, passDone, passFailed, lastRun>>

\* the safety scorer (safetyScoreService) and the collections it reads
VARIABLES
    threatData,   \* the documents its queries can return, per collection
    lastScore,    \* the latest calculateSafetyScore call: its arguments and result
    notifyCall    \* the latest shouldNotifyScoreChange call: its arguments and result

scVars == <<threatData, lastScore, notifyCall>>

\* the SOS request handler (SOSalertController.triggerSOS)
VARIABLES
    reqPc,        \* per alert: position of its triggerSOS request
    reqData,      \* per alert: the saved document's id and gridUpdated of the response
    effects,      \* what the requests did towards the outside, in order
    ledger        \* global.sosQueue: the queued ledger writes and how far each got

ctlVars == <<reqPc, reqData, effects, ledger>>

\* calls of the functions of riskEngineService
VARIABLES
    cellCall,     \* the latest getGridIdAndCenter calls: two points and their results
    tierCall,     \* the latest processGrid run on a given snapshot: inputs and document
    gridRuns      \* processGrid runs in flight, per caller: position and what it read

fnVars == <<cellCall, tierCall, gridRuns>>

vars == <<fbVars, rtVars, riskVars, scVars, ctlVars, fnVars>>

\* =====================================================================
\*                            FallbackStore
\* =====================================================================


\* the alert payload handed over by emitSOSAlert (JSON-plain fields)
Payload(a) == [alertId |-> a, status |-> "new"]
\* JavaScript null as returned by getPendingAlert
Null == [alertId |-> 0, status |-> "null"]

\* JSON.stringify(alertData): the text, as its token sequence
JSONStringify(p) == <<"{", "alertId", p.alertId, "status", p.status, "}">>

\* JSON.parse(text) for a payload text
JSONParse(s) == [alertId |-> s[3], status |-> s[5]]

\* `sos:fallback:${alertId}`
AlertKey(alertId) == alertId

\* winston line (format json): {level, message, payload?}
LogLine(level, message) == <<"{", "level", level, "message", message, "}">>

PayloadLine(p) ==
    <<"{", "level", "info", "message", "SOS_PAYLOAD", "payload">>
        \o JSONStringify(p) \o <<"}">>

\* a line JSON.parse rejects (a torn write)
MalformedLine == <<"{", "level">>

\* JSON.parse(line) succeeds
Parses(line) == Len(line) >= 6 /\ line[1] = "{" /\ line[Len(line)] = "}"

\* logEntry.message === 'SOS_PAYLOAD' && logEntry.payload &&
\* logEntry.payload.alertId === alertId
LineMatches(line, alertId) ==
    /\ Parses(line)
    /\ line[5] = "SOS_PAYLOAD"
    /\ Len(line) = 13
    /\ line[6] = "payload"
    /\ JSONParse(SubSeq(line, 7, 12)).alertId = alertId

\* the error of JSON.parse(line) reaching the catch around the whole read
ScanParseErrOuter == "outer"

\* catch (parseErr) { continue; } inside the loop over the lines
ScanParseErr == "continue"

\* the readline scan of fallback.log: first matching line's payload, else
\* null; the catch around the read logs and falls through to return null
RECURSIVE ScanFrom(_, _, _)
ScanFrom(log, i, alertId) ==
    IF i > Len(log) THEN Null
    ELSE IF ~Parses(log[i])
         THEN IF ScanParseErr = "continue" THEN ScanFrom(log, i + 1, alertId) ELSE Null
    ELSE IF LineMatches(log[i], alertId)
         THEN JSONParse(SubSeq(log[i], 7, 12))
         ELSE ScanFrom(log, i + 1, alertId)

ScanLog(log, alertId) == ScanFrom(log, 1, alertId)

HasPayloadLine(log, alertId) == \E i \in 1..Len(log) : LineMatches(log[i], alertId)

\* ------------------------------------------------- handleSOSFallback (put)

FbState == [status |-> redisStatus, store |-> redisStore, log |-> logFile]

Pending == [outcome |-> "pending", branch |-> "none"]

\* the outer catch of handleSOSFallback logs the error and swallows it
HandleSOSFallbackRethrow == "raised"
HandleSOSFallbackCatch == "returned"

\* the call returned without writing the payload anywhere: catch (error) {logger.error}
Caught(fs, branch) ==
    [fs |-> [fs EXCEPT !.log = Append(@, LogLine("error", "Failed to handle SOS fallback"))],
     pc |-> "done",
     info |-> [outcome |-> HandleSOSFallbackCatch, branch |-> branch]]

\* logger.warn(...file only); logger.info("SOS_PAYLOAD", {payload})
LoggedToFile(fs, a, branch) ==
    [fs |-> [fs EXCEPT !.log = @ \o <<LogLine("warn", "logged to file only"),
                                      PayloadLine(Payload(a))>>],
     pc |-> "done",
     info |-> [outcome |-> "returned", branch |-> branch]]

\* if (redisClient.status === 'ready') { await set(...) ... } else { log to file }
StoreStep(fs, a, setOk) ==
    IF fs.status = "ready"
    THEN IF setOk
         THEN [fs |-> [fs EXCEPT !.store =
                          [k \in DOMAIN fs.store \cup {AlertKey(a)} |->
                              IF k = AlertKey(a)
                              THEN [val |-> JSONStringify(Payload(a)), ttl |-> FALSE]
                              ELSE fs.store[k]]],
               pc |-> "expire",
               info |-> Pending]
         ELSE Caught(fs, "setFail")
    ELSE LoggedToFile(fs, a, "notReady")

\* entry of handleSOSFallback up to its first await
EnterStep(fs, a, setOk) ==
    IF fs.status # "ready" /\ fs.status # "connecting"
    THEN [fs |-> [fs EXCEPT !.status = "connecting"], pc |-> "connect", info |-> Pending]
    ELSE StoreStep(fs, a, setOk)

\* continuation of await redisClient.connect()
ConnectStep(fs, a, connectOk, setOk) ==
    IF connectOk
    THEN StoreStep([fs EXCEPT !.status = "ready"], a, setOk)
    ELSE LoggedToFile([fs EXCEPT !.status = "reconnecting"], a, "connectFail")

\* await redisClient.expire(alertKey, 3600); logger.warn(...)
ExpireStep(fs, a, expireOk) ==
    IF expireOk
    THEN [fs |-> [fs EXCEPT
                    !.store = [k \in DOMAIN fs.store |->
                                  IF k = AlertKey(a) THEN [fs.store[k] EXCEPT !.ttl = TRUE]
                                  ELSE fs.store[k]],
                    !.log = Append(@, LogLine("warn", "Storing alert in Redis"))],
          pc |-> "done",
          info |-> [outcome |-> "returned", branch |-> "stored"]]
    ELSE Caught(fs, "expireFail")

\* a redis command can succeed only while the client is ready
CmdOutcomes(fs) == IF fs.status = "ready" THEN BOOLEAN ELSE {FALSE}

ApplyPut(a, r) ==
    /\ redisStatus' = r.fs.status
    /\ redisStore' = r.fs.store
    /\ logFile' = r.fs.log
    /\ putPc' = [putPc EXCEPT ![a] = r.pc]
    /\ putInfo' = [putInfo EXCEPT ![a] = r.info]

PutCall(a) ==
    /\ putPc[a] = "idle"
    /\ \E setOk \in BOOLEAN : ApplyPut(a, EnterStep(FbState, a, setOk))
    /\ UNCHANGED <<keyExpired, getPc, getArg, getData, getResult, getInfo>>
    /\ UNCHANGED <<rtVars, riskVars, scVars, ctlVars, fnVars>>

PutConnect(a) ==
    /\ putPc[a] = "connect"
    /\ \E connectOk \in BOOLEAN, setOk \in BOOLEAN :
          ApplyPut(a, ConnectStep(FbState, a, connectOk, setOk))
    /\ UNCHANGED <<keyExpired, getPc, getArg, getData, getResult, getInfo>>
    /\ UNCHANGED <<rtVars, riskVars, scVars, ctlVars, fnVars>>

PutExpire(a) ==
    /\ putPc[a] = "expire"
    /\ \E expireOk \in CmdOutcomes(FbState) : ApplyPut(a, ExpireStep(FbState, a, expireOk))
    /\ UNCHANGED <<keyExpired, getPc, getArg, getData, getResult, getInfo>>
    /\ UNCHANGED <<rtVars, riskVars, scVars, ctlVars, fnVars>>

\* ------------------------------------------------- getPendingAlert (get)

NoData == <<>>

\* await redisClient.get(alertKey)
RedisGet(store, k) == IF k \in DOMAIN store THEN store[k].val ELSE NoData

\* await redisClient.del(alertKey)
RedisDelNothing(store, k) == store
RedisDel(store, k) == [j \in DOMAIN store \ {k} |-> store[j]]

\* entry of getPendingAlert up to the reply of GET; the calls are numbered in
\* the order they start
GetCall(g, id) ==
    /\ getPc[g] = "idle"
    /\ \A h \in Getters : h < g => getPc[h] # "idle"
    /\ getArg' = [getArg EXCEPT ![g] = id]
    /\ \E getOk \in BOOLEAN :
         LET viaCache == redisStatus = "ready" /\ getOk
             data == IF viaCache THEN RedisGet(redisStore, AlertKey(id)) ELSE NoData
         IN /\ getData' = [getData EXCEPT ![g] = data]
            /\ getPc' = [getPc EXCEPT ![g] = IF data # NoData THEN "del" ELSE "scan"]
            /\ getInfo' = [getInfo EXCEPT ![g] =
                  [seen |-> {h \in Getters : getPc[h] = "done" /\ getArg[h] = id},
                   cacheOk |-> viaCache,
                   putStored |-> putInfo[id].branch = "stored",
                   expired |-> id \in keyExpired,
                   src |-> "none"]]
    /\ UNCHANGED <<redisStatus, redisStore, logFile, putPc, putInfo, keyExpired, getResult>>
    /\ UNCHANGED <<rtVars, riskVars, scVars, ctlVars, fnVars>>

\* if (alertData) { await redisClient.del(alertKey); return JSON.parse(alertData); }
GetDel(g) ==
    /\ getPc[g] = "del"
    /\ \E delOk \in CmdOutcomes(FbState) :
         IF delOk
         THEN /\ redisStore' = RedisDel(redisStore, AlertKey(getArg[g]))
              /\ getResult' = [getResult EXCEPT ![g] = JSONParse(getData[g])]
              /\ getPc' = [getPc EXCEPT ![g] = "done"]
              /\ getInfo' = [getInfo EXCEPT ![g].src = "cache"]
         ELSE /\ getPc' = [getPc EXCEPT ![g] = "scan"]
              /\ getInfo' = [getInfo EXCEPT ![g].cacheOk = FALSE]
              /\ UNCHANGED <<redisStore, getResult>>
    /\ UNCHANGED <<redisStatus, logFile, putPc, putInfo, keyExpired, getArg, getData>>
    /\ UNCHANGED <<rtVars, riskVars, scVars, ctlVars, fnVars>>

\* the scan of logs/fallback.log
GetScan(g) ==
    /\ getPc[g] = "scan"
    /\ getResult' = [getResult EXCEPT ![g] = ScanLog(logFile, getArg[g])]
    /\ getPc' = [getPc EXCEPT ![g] = "done"]
    /\ getInfo' = [getInfo EXCEPT ![g].src = "log"]
    /\ UNCHANGED <<redisStatus, redisStore, logFile, putPc, putInfo, keyExpired, getArg, getData>>
    /\ UNCHANGED <<rtVars, riskVars, scVars, ctlVars, fnVars>>

\* a line of fallback.log that is not JSON: a write cut short
MaxTorn == 1

TornLines(log) == Cardinality({i \in 1..Len(log) : log[i] = MalformedLine})

TornWrite ==
    /\ TornLines(logFile) < MaxTorn
    /\ logFile' = Append(logFile, MalformedLine)
    /\ UNCHANGED <<redisStatus, redisStore, putPc, putInfo, keyExpired,
                   getPc, getArg, getData, getResult, getInfo>>
    /\ UNCHANGED <<rtVars, riskVars, scVars, ctlVars, fnVars>>

\* ------------------------------------------------- the cache backend

\* the connection drops; ioredis reconnects by retryStrategy
RedisDown ==
    /\ redisStatus = "ready"
    /\ redisStatus' = "reconnecting"
    /\ UNCHANGED <<redisStore, logFile, putPc, putInfo, keyExpired,
                   getPc, getArg, getData, getResult, getInfo>>
    /\ UNCHANGED <<rtVars, riskVars, scVars, ctlVars, fnVars>>

RedisUp ==
    /\ redisStatus = "reconnecting"
    /\ redisStatus' = "ready"
    /\ UNCHANGED <<redisStore, logFile, putPc, putInfo, keyExpired,
                   getPc, getArg, getData, getResult, getInfo>>
    /\ UNCHANGED <<rtVars, riskVars, scVars, ctlVars, fnVars>>

\* one hour after expire(alertKey, 3600) the key is gone
KeyExpiry(k) ==
    /\ k \in DOMAIN redisStore
    /\ redisStore[k].ttl
    /\ redisStore' = RedisDel(redisStore, k)
    /\ keyExpired' = keyExpired \cup {k}
    /\ UNCHANGED <<redisStatus, logFile, putPc, putInfo,
                   getPc, getArg, getData, getResult, getInfo>>
    /\ UNCHANGED <<rtVars, riskVars, scVars, ctlVars, fnVars>>

FbInit ==
    /\ redisStatus = "wait"
    /\ redisStore = << >>
    /\ logFile = << >>
    /\ putPc = [a \in AlertIds |-> "idle"]
    /\ putInfo = [a \in AlertIds |-> Pending]
    /\ keyExpired = {}
    /\ getPc = [g \in Getters |-> "idle"]
    /\ getArg = [g \in Getters |-> 0]
    /\ getData = [g \in Getters |-> NoData]
    /\ getResult = [g \in Getters |-> Null]
    /\ getInfo = [g \in Getters |->
                    [seen |-> {}, cacheOk |-> FALSE, putStored |-> FALSE,
                     expired |-> FALSE, src |-> "none"]]

FbNext ==
    \/ \E a \in AlertIds : PutCall(a)
    \/ \E a \in AlertIds : PutConnect(a)
    \/ \E a \in AlertIds : PutExpire(a)
    \/ \E g \in Getters, id \in AlertIds : GetCall(g, id)
    \/ \E g \in Getters : GetDel(g)
    \/ \E g \in Getters : GetScan(g)
    \/ RedisDown
    \/ RedisUp
    \/ \E k \in AlertIds : KeyExpiry(k)


\* ------------------------------------------------- FallbackStore claims

PutFailed(a) ==
    /\ putPc[a] = "done"
    /\ putInfo[a].branch \in {"connectFail", "notReady", "setFail", "expireFail"}

\* C2: whenever the cache backend fails during handleSOSFallback (connect fails,
\* client not ready, or set/expire fails while the client reports ready), the
\* payload is in the durable log as an SOS_PAYLOAD entry.
C2_CacheFailureLogsPayload ==
    \A a \in AlertIds : PutFailed(a) => HasPayloadLine(logFile, a)

\* C3: handleSOSFallback never raises to its caller, whatever the cache does.
C3_PutNeverRaises ==
    \A a \in AlertIds : putInfo[a].outcome # "raised"

\* a set or expire failure was met and the call still returned normally
C3_Witness ==
    \E a \in AlertIds :
        /\ putPc[a] = "done"
        /\ putInfo[a].branch \in {"setFail", "expireFail"}
        /\ putInfo[a].outcome = "returned"

\* g was the only getPendingAlert call for its id while it ran, and the first
RanFirstAlone(g) ==
    /\ getInfo[g].seen = {}
    /\ \A h \in Getters \ {g} :
          (getPc[h] # "idle" /\ getArg[h] = getArg[g]) => g \in getInfo[h].seen

C5_AtMostOnceFromCache ==
    \A a \in AlertIds :
        Cardinality({g \in Getters : /\ getPc[g] = "done"
                                     /\ getArg[g] = a
                                     /\ getInfo[g].src = "cache"
                                     /\ getResult[g] = Payload(a)}) <= 1

\* =====================================================================
\*                 AlertDispatcher (realtimeService)
\* =====================================================================


Sockets == 1..MaxSockets
AuthorityIds == {"u1", "u2"}
Roles == {"authority", "tourist"}


\* a location {lat, lng} in 1e-4 degrees; has = FALSE is an undefined location
Loc(lat, lng) == [has |-> TRUE, lat |-> lat, lng |-> lng]
NoLoc == [has |-> FALSE, lat |-> 0, lng |-> 0]

\* touristLocation && touristLocation.lat && touristLocation.lng
Truthy(loc) == loc.has /\ loc.lat # 0 /\ loc.lng # 0

NoSocketData == [userId |-> "none", touristId |-> "none", userType |-> "none",
                 location |-> NoLoc]

NoPending == [kind |-> "none", touristId |-> "none"]

\* Map.get(k) || new Set(), then set.add(socket)
MapAdd(m, k, sock) ==
    [j \in DOMAIN m \cup {k} |->
        IF j = k THEN (IF k \in DOMAIN m THEN m[k] ELSE {}) \cup {sock} ELSE m[j]]

\* map.delete(k) without looking at the size of the set
MapRemoveKey(m, k, sock) == [j \in DOMAIN m \ {k} |-> m[j]]

\* set.delete(socket); if (set.size === 0) map.delete(k)
MapRemove(m, k, sock) ==
    IF k \notin DOMAIN m THEN m
    ELSE IF m[k] \ {sock} = {}
         THEN [j \in DOMAIN m \ {k} |-> m[j]]
         ELSE [m EXCEPT ![k] = @ \ {sock}]

\* the entries of touristSockets as the Map and its Sets iterate them: keys in
\* insertion order, each with its sockets in insertion order
OrderIndex(order, k) ==
    IF \E i \in 1..Len(order) : order[i].touristId = k
    THEN CHOOSE i \in 1..Len(order) : order[i].touristId = k
    ELSE 0

\* touristSockets.get(k) || new Set(); set.add(socket); touristSockets.set(k, set)
OrderAdd(order, k, sock) ==
    LET i == OrderIndex(order, k)
    IN IF i = 0 THEN Append(order, [touristId |-> k, sockets |-> <<sock>>])
       ELSE IF \E n \in 1..Len(order[i].sockets) : order[i].sockets[n] = sock THEN order
       ELSE [order EXCEPT ![i].sockets = Append(@, sock)]

\* set.delete(socket); if (set.size === 0) touristSockets.delete(k)
OrderRemove(order, k, sock) ==
    LET i == OrderIndex(order, k)
        rest == IF i = 0 THEN << >> ELSE SelectSeq(order[i].sockets, LAMBDA x : x # sock)
    IN IF i = 0 THEN order
       ELSE IF rest = << >> THEN SelectSeq(order, LAMBDA e : e.touristId # k)
       ELSE [order EXCEPT ![i].sockets = rest]

MapDelete(m, k) == [j \in DOMAIN m \ {k} |-> m[j]]

MapSet(m, k, v) == [j \in DOMAIN m \cup {k} |-> IF j = k THEN v ELSE m[j]]

\* for (let s of map.values()) total += s.size
TotalSockets(m) == Cardinality({<<k, sock>> \in (DOMAIN m) \X Sockets : sock \in m[k]})

NoSOS == [alert |-> 0, path |-> "none", receivers |-> {}, outcome |-> "none"]

NoArea == [has |-> FALSE, lat |-> 0, lng |-> 0, radius |-> 0]
NoBroadcast ==
    [kind |-> "none", area |-> NoArea, deliveries |-> {}, live |-> {},
     sender |-> 0, valid |-> FALSE, reply |-> "none"]

\* stored: the entry touristLastScores held before the push, NotStored for none
NotStored == 0 - 1
NoPush == [kind |-> "none", touristId |-> "none", stored |-> NotStored,
           previousScore |-> 0, newScore |-> 0, alert |-> "null"]


\* exports.init: io = socketio(httpServer, ...)
InitIO ==
    /\ ~io
    /\ io' = TRUE
    /\ UNCHANGED <<sockState, sockData, rooms, authoritySockets, touristSockets, touristOrder,
                   touristLastScores, pendingScore>>
    /\ UNCHANGED <<fbVars, riskVars, scVars, ctlVars, fnVars>>
    /\ lastSOS' = NoSOS
    /\ lastPush' = NoPush
    /\ UNCHANGED periodic
    /\ lastBroadcast' = NoBroadcast

\* io.on('connection', (socket) => ...)
Connect(sock) ==
    /\ io
    /\ sockState[sock] = "new"
    /\ sockState' = [sockState EXCEPT ![sock] = "connected"]
    /\ UNCHANGED <<io, sockData, rooms, authoritySockets, touristSockets, touristOrder,
                   touristLastScores, pendingScore>>
    /\ UNCHANGED <<fbVars, riskVars, scVars, ctlVars, fnVars>>
    /\ lastSOS' = NoSOS
    /\ lastPush' = NoPush
    /\ UNCHANGED periodic
    /\ lastBroadcast' = NoBroadcast

\* socket.on('registerAuthority', data)
RegisterAuthority(sock, role, userId) ==
    /\ sockState[sock] = "connected"
    /\ IF role = "authority" /\ userId # "none"
       THEN /\ sockData' = [sockData EXCEPT ![sock].userId = userId,
                                            ![sock].userType = "authority"]
            /\ authoritySockets' = MapAdd(authoritySockets, userId, sock)
            /\ rooms' = [rooms EXCEPT !.authorities = @ \cup {sock}]
       ELSE UNCHANGED <<sockData, authoritySockets, rooms>>
    /\ UNCHANGED <<io, sockState, touristSockets, touristOrder, touristLastScores, pendingScore>>
    /\ UNCHANGED <<fbVars, riskVars, scVars, ctlVars, fnVars>>
    /\ lastSOS' = NoSOS
    /\ lastPush' = NoPush
    /\ UNCHANGED periodic
    /\ lastBroadcast' = NoBroadcast

\* socket.on('registerTourist', data), up to await calculateSafetyScore
RegisterTourist(sock, role, touristId, location) ==
    /\ sockState[sock] = "connected"
    /\ pendingScore[sock].kind = "none"
    /\ IF role = "tourist" /\ touristId # "none"
       THEN /\ sockData' = [sockData EXCEPT ![sock].touristId = touristId,
                                            ![sock].userType = "tourist",
                                            ![sock].location = location]
            /\ touristSockets' = MapAdd(touristSockets, touristId, sock)
            /\ touristOrder' = OrderAdd(touristOrder, touristId, sock)
            /\ rooms' = [rooms EXCEPT !.tourists = @ \cup {sock}]
            /\ pendingScore' = [pendingScore EXCEPT ![sock] =
                  IF Truthy(location)
                  THEN [kind |-> "register", touristId |-> touristId]
                  ELSE NoPending]
       ELSE UNCHANGED <<sockData, touristSockets, touristOrder, rooms, pendingScore>>
    /\ UNCHANGED <<io, sockState, authoritySockets, touristLastScores>>
    /\ UNCHANGED <<fbVars, riskVars, scVars, ctlVars, fnVars>>
    /\ lastSOS' = NoSOS
    /\ lastPush' = NoPush
    /\ UNCHANGED periodic
    /\ lastBroadcast' = NoBroadcast

\* socket.on('updateTouristLocation', data), up to await calculateSafetyScore
UpdateTouristLocation(sock, location) ==
    /\ sockState[sock] = "connected"
    /\ pendingScore[sock].kind = "none"
    /\ IF sockData[sock].userType = "tourist" /\ location.has
       THEN /\ sockData' = [sockData EXCEPT ![sock].location = location]
            /\ pendingScore' = [pendingScore EXCEPT ![sock] =
                  [kind |-> "update", touristId |-> sockData[sock].touristId]]
       ELSE UNCHANGED <<sockData, pendingScore>>
    /\ UNCHANGED <<io, sockState, rooms, authoritySockets, touristSockets, touristOrder,
                   touristLastScores>>
    /\ UNCHANGED <<fbVars, riskVars, scVars, ctlVars, fnVars>>
    /\ lastSOS' = NoSOS
    /\ lastPush' = NoPush
    /\ UNCHANGED periodic
    /\ lastBroadcast' = NoBroadcast

\* shouldNotifyScoreChange of the safety score service: the type of the notification object, "null" for null
shouldNotifyScoreChangeStrict(oldScore, newScore) ==
    LET scoreDifference == oldScore - newScore
    IN IF scoreDifference > 30 THEN "critical"
       ELSE IF scoreDifference > 15 THEN "warning"
       ELSE IF scoreDifference < -30 THEN "improvement"
       ELSE "null"
shouldNotifyScoreChange(oldScore, newScore) ==
    LET scoreDifference == oldScore - newScore
    IN IF scoreDifference >= 30 THEN "critical"
       ELSE IF scoreDifference >= 15 THEN "warning"
       ELSE IF scoreDifference <= -30 THEN "improvement"
       ELSE "null"

\* the literal of `|| 80`
DEFAULT_PREVIOUS_SCORE == 80

\* touristLastScores.get(touristId), NotStored for undefined
StoredScore(touristId) ==
    IF touristId \in DOMAIN touristLastScores THEN touristLastScores[touristId]
    ELSE NotStored

\* touristLastScores.get(touristId) || 80: undefined and 0 are falsy
PreviousScore(touristId) ==
    IF StoredScore(touristId) = NotStored \/ StoredScore(touristId) = 0
    THEN DEFAULT_PREVIOUS_SCORE
    ELSE StoredScore(touristId)

\* previousScore, touristLastScores.set(touristId, newScore) and the
\* safetyScoreAlert decision of updateTouristLocation and the periodic update
ScorePush(kind, touristId, newScore) ==
    [kind |-> kind, touristId |-> touristId, stored |-> StoredScore(touristId),
     previousScore |-> PreviousScore(touristId), newScore |-> newScore,
     alert |-> shouldNotifyScoreChange(PreviousScore(touristId), newScore)]

\* the continuation after await calculateSafetyScore(...) in registerTourist and
\* updateTouristLocation: touristLastScores.set(touristId, score), and for an
\* update the comparison with the previous score; a rejected computation is
\* caught and leaves the map alone
ScoreComputed(sock, ok, score) ==
    /\ pendingScore[sock].kind # "none"
    /\ pendingScore' = [pendingScore EXCEPT ![sock] = NoPending]
    /\ touristLastScores' =
          IF ok THEN MapSet(touristLastScores, pendingScore[sock].touristId, score)
          ELSE touristLastScores
    /\ lastPush' = IF ok /\ pendingScore[sock].kind = "update"
                   THEN ScorePush("update", pendingScore[sock].touristId, score)
                   ELSE NoPush
    /\ UNCHANGED <<io, sockState, sockData, rooms, authoritySockets, touristSockets, touristOrder>>
    /\ UNCHANGED periodic
    /\ UNCHANGED <<fbVars, riskVars, scVars, ctlVars, fnVars>>
    /\ lastSOS' = NoSOS
    /\ lastBroadcast' = NoBroadcast

\* ------------------------------------- runPeriodicSafetyScoreUpdate

NoPeriodic ==
    [pc |-> "idle", visited |-> {}, current |-> "none", gone |-> FALSE,
     scored |-> {}, failed |-> {}, pushes |-> {}]

\* const firstSocket = socketSet.values().next().value
FirstSocket(touristId) == touristOrder[OrderIndex(touristOrder, touristId)].sockets[1]

\* the entries() iterator of the Map: the next key it yields
NextEntry == 
    LET left == SelectSeq(touristOrder, LAMBDA e : e.touristId \notin periodic.visited)
    IN IF left = << >> THEN "none" ELSE left[1].touristId

\* the timer fires: if (!io) return; otherwise the loop begins
PeriodicStart ==
    /\ periodic.pc \in {"idle", "complete"}
    /\ periodic' = [NoPeriodic EXCEPT !.pc = IF io THEN "loop" ELSE "complete"]
    /\ UNCHANGED <<io, sockState, sockData, rooms, authoritySockets, touristSockets, touristOrder,
                   touristLastScores, pendingScore>>
    /\ UNCHANGED <<fbVars, riskVars, scVars, ctlVars, fnVars>>
    /\ lastSOS' = NoSOS
    /\ lastPush' = NoPush
    /\ lastBroadcast' = NoBroadcast

\* the loop takes the next entry: continue when the first socket of the Set
\* has no usable location, otherwise await calculateSafetyScore(...)
PeriodicVisit ==
    /\ periodic.pc = "loop"
    /\ NextEntry # "none"
    /\ periodic' =
          IF Truthy(sockData[FirstSocket(NextEntry)].location)
          THEN [periodic EXCEPT !.pc = "await", !.current = NextEntry, !.gone = FALSE]
          ELSE [periodic EXCEPT !.visited = @ \cup {NextEntry}]
    /\ UNCHANGED <<io, sockState, sockData, rooms, authoritySockets, touristSockets, touristOrder,
                   touristLastScores, pendingScore>>
    /\ UNCHANGED <<fbVars, riskVars, scVars, ctlVars, fnVars>>
    /\ lastSOS' = NoSOS
    /\ lastPush' = NoPush
    /\ lastBroadcast' = NoBroadcast

\* the sockets of the Set the iteration holds: the Set of an entry deleted
\* during the await is empty, also when the identity registered again
HeldSocketSet ==
    IF periodic.gone \/ periodic.current \notin DOMAIN touristSockets THEN {}
    ELSE touristSockets[periodic.current]

\* the continuation of the await inside the try: previousScore,
\* touristLastScores.set, safetyScoreUpdate to every socket of the Set; a
\* rejection (ok = FALSE) or a throwing emit lands in the catch of the
\* iteration, which logs, and the loop goes on
PeriodicScored(ok, emitOk, score) ==
    /\ periodic.pc = "await"
    /\ touristLastScores' =
          IF ok THEN MapSet(touristLastScores, periodic.current, score)
          ELSE touristLastScores
    /\ lastPush' = IF ok THEN ScorePush("periodic", periodic.current, score) ELSE NoPush
    /\ periodic' =
          [periodic EXCEPT
             !.pc = "loop",
             !.visited = @ \cup {periodic.current},
             !.current = "none",
             !.scored = IF ok THEN @ \cup {periodic.current} ELSE @,
             !.failed = IF ok /\ emitOk THEN @ ELSE @ \cup {periodic.current},
             !.pushes = IF ok /\ emitOk
                        THEN @ \cup {<<periodic.current, sock>> : sock \in
                                 {x \in HeldSocketSet : sockState[x] = "connected"}}
                        ELSE @]
    /\ UNCHANGED <<io, sockState, sockData, rooms, authoritySockets, touristSockets, touristOrder,
                   pendingScore>>
    /\ UNCHANGED <<fbVars, riskVars, scVars, ctlVars, fnVars>>
    /\ lastSOS' = NoSOS
    /\ lastBroadcast' = NoBroadcast

\* the iterator is exhausted: the run returns
PeriodicEnd ==
    /\ periodic.pc = "loop"
    /\ NextEntry = "none"
    /\ periodic' = [periodic EXCEPT !.pc = "complete"]
    /\ UNCHANGED <<io, sockState, sockData, rooms, authoritySockets, touristSockets, touristOrder,
                   touristLastScores, pendingScore>>
    /\ UNCHANGED <<fbVars, riskVars, scVars, ctlVars, fnVars>>
    /\ lastSOS' = NoSOS
    /\ lastPush' = NoPush
    /\ lastBroadcast' = NoBroadcast

\* a registry still holds the socket object
StillReferenced(sock, authorities, tourists) ==
    \/ \E k \in DOMAIN authorities : sock \in authorities[k]
    \/ \E k \in DOMAIN tourists : sock \in tourists[k]

\* socket.on('disconnect'); Socket.IO takes the socket out of every room; the
\* data of a socket object no registry holds any more is unreachable
Disconnect(sock) ==
    /\ sockState[sock] = "connected"
    /\ sockState' = [sockState EXCEPT ![sock] = "disconnected"]
    /\ rooms' = [authorities |-> rooms.authorities \ {sock},
                 tourists |-> rooms.tourists \ {sock}]
    /\ LET uid == sockData[sock].userId
           tid == sockData[sock].touristId
           userType == sockData[sock].userType
       IN IF userType = "authority" /\ uid # "none"
          THEN /\ authoritySockets' = MapRemove(authoritySockets, uid, sock)
               /\ UNCHANGED <<touristSockets, touristOrder, touristLastScores>>
          ELSE IF userType = "tourist" /\ tid # "none"
          THEN /\ touristSockets' = MapRemove(touristSockets, tid, sock)
               /\ touristOrder' = OrderRemove(touristOrder, tid, sock)
               /\ touristLastScores' =
                     IF tid \in DOMAIN touristSockets /\ touristSockets[tid] \ {sock} = {}
                     THEN MapDelete(touristLastScores, tid)
                     ELSE touristLastScores
               /\ UNCHANGED authoritySockets
          ELSE UNCHANGED <<authoritySockets, touristSockets, touristOrder, touristLastScores>>
    /\ sockData' = [sockData EXCEPT ![sock] =
          IF StillReferenced(sock, authoritySockets', touristSockets')
          THEN @ ELSE NoSocketData]
    /\ periodic' =
          LET tid == sockData[sock].touristId
          IN IF sockData[sock].userType = "tourist" /\ tid \in DOMAIN touristSockets
                /\ tid \notin DOMAIN touristSockets'
             THEN [periodic EXCEPT !.visited = @ \ {tid},
                                   !.gone = @ \/ periodic.current = tid]
             ELSE periodic
    /\ UNCHANGED <<io, pendingScore>>
    /\ UNCHANGED <<fbVars, riskVars, scVars, ctlVars, fnVars>>
    /\ lastSOS' = NoSOS
    /\ lastPush' = NoPush
    /\ lastBroadcast' = NoBroadcast

\* ------------------------------------------------- emitSOSAlert

\* handleSOSFallback run to completion inside one emitSOSAlert call
HandleSOSFallback(fs, a, connectOk, setOk, expireOk) ==
    LET r1 == EnterStep(fs, a, setOk)
        r2 == IF r1.pc = "connect" THEN ConnectStep(r1.fs, a, connectOk, setOk) ELSE r1
        r3 == IF r2.pc = "expire"
              THEN ExpireStep(r2.fs, a, expireOk /\ r2.fs.status = "ready")
              ELSE r2
    IN r3

\* sockets that receive io.to(room).emit(...)
RoomReceivers(members) == {sock \in members : sockState[sock] = "connected"}

\* which branch emitSOSAlert takes: broadcast on the live channel or fall back
SOSPath(emitThrows) ==
    IF ~io THEN "fallback"
    ELSE IF TotalSockets(authoritySockets) = 0 THEN "fallback"
    ELSE IF emitThrows THEN "fallback"
    ELSE "emitted"

\* emitSOSAlert(alertData), on the state of the dispatcher and the fallback store
EmitSOSAlertCall(a, emitThrows, connectOk, setOk, expireOk) ==
    /\ putPc[a] = "idle"
    /\ LET path == SOSPath(emitThrows)
           r == HandleSOSFallback(FbState, a, connectOk, setOk, expireOk)
       IN IF path = "emitted"
          THEN /\ lastSOS' = [alert |-> a, path |-> "emitted",
                              receivers |-> RoomReceivers(rooms.authorities),
                              outcome |-> "returned"]
               /\ putPc' = [putPc EXCEPT ![a] = "live"]
               /\ UNCHANGED <<redisStatus, redisStore, logFile, putInfo>>
          ELSE /\ lastSOS' = [alert |-> a, path |-> "fallback", receivers |-> {},
                              outcome |-> "returned"]
               /\ ApplyPut(a, r)
    /\ UNCHANGED <<keyExpired, getPc, getArg, getData, getResult, getInfo>>
    /\ UNCHANGED <<io, sockState, sockData, rooms, authoritySockets, touristSockets, touristOrder,
                   touristLastScores, pendingScore>>
    /\ lastBroadcast' = NoBroadcast
    /\ lastPush' = NoPush
    /\ UNCHANGED periodic

EmitSOSAlert(a, emitThrows, connectOk, setOk, expireOk) ==
    /\ EmitSOSAlertCall(a, emitThrows, connectOk, setOk, expireOk)
    /\ UNCHANGED <<riskVars, scVars, ctlVars, fnVars>>

\* ------------------------------------------------- emitAuthorityAlertToTourists

\* calculateDistance (Haversine, R = 6371000 m) in millimetres, evaluated in
\* IEEE doubles for the points of the model (coordinates in 1e-4 degrees)
calculateDistance(lat1, lon1, lat2, lon2) ==
    CASE <<lat1, lon1, lat2, lon2>> = <<10, 20, 10, 20>> -> 0
      [] <<lat1, lon1, lat2, lon2>> = <<10, 20, 50, 20>> -> 444780
      [] <<lat1, lon1, lat2, lon2>> = <<10, 20, 0, 20>> -> 111195
      [] <<lat1, lon1, lat2, lon2>> = <<10, 20, 10, 0>> -> 222390

\* Math.round(distance), in metres
MathRound(mm) == (mm + 500) \div 1000

\* if (distance <= targetRadius)
InTargetAreaAlways(distance, targetRadius) == TRUE
InTargetArea(distance, targetRadius) == distance <= targetRadius

\* the end-user locations and the target areas of the model
TargetCentre == Loc(10, 20)
TouristLocations == {Loc(50, 20), Loc(0, 20), Loc(10, 0), NoLoc}
\* targetArea.radius, in millimetres: 300 m, and the distance of Loc(50, 20)
TargetRadii == {300000, 444780}
TargetAreas == {[has |-> TRUE, lat |-> TargetCentre.lat, lng |-> TargetCentre.lng,
                 radius |-> r] : r \in TargetRadii}

\* the tourist connections of the registry
RegisteredTouristSockets ==
    {sock \in Sockets : \E tid \in DOMAIN touristSockets : sock \in touristSockets[tid]}

DistanceTo(area, loc) == calculateDistance(area.lat, area.lng, loc.lat, loc.lng)

\* the for-loops over touristSockets: one emit per socket inside the radius
TargetedDeliveries(area) ==
    {[sock |-> sock,
      distanceFromEvent |-> MathRound(DistanceTo(area, sockData[sock].location))] :
        sock \in {x \in RegisteredTouristSockets :
                    /\ Truthy(sockData[x].location)
                    /\ InTargetArea(DistanceTo(area, sockData[x].location), area.radius)}}

\* what one emitAuthorityAlertToTourists(alertData) call does: the branch it
\* takes ("rejected": it throws) and the authorityAlert emits that arrive
BroadcastOutcome(valid, area) ==
    [kind |-> IF ~io THEN "notInitialised"
              ELSE IF ~valid THEN "rejected"
              ELSE IF TotalSockets(touristSockets) = 0 THEN "noTourists"
              ELSE IF ~area.has THEN "all"
              ELSE "targeted",
     area |-> area,
     deliveries |->
         IF ~io \/ ~valid \/ TotalSockets(touristSockets) = 0 THEN {}
         ELSE IF ~area.has
              THEN {[sock |-> sock, distanceFromEvent |-> -1] :
                       sock \in RoomReceivers(rooms.tourists)}
              ELSE {d \in TargetedDeliveries(area) : sockState[d.sock] = "connected"},
     live |-> RoomReceivers(RegisteredTouristSockets),
     sender |-> 0, valid |-> valid, reply |-> "none"]

EmitAuthorityAlertToTourists(valid, area) ==
    /\ lastBroadcast' = BroadcastOutcome(valid, area)
    /\ lastSOS' = NoSOS
    /\ lastPush' = NoPush
    /\ UNCHANGED periodic
    /\ UNCHANGED <<io, sockState, sockData, rooms, authoritySockets, touristSockets, touristOrder,
                   touristLastScores, pendingScore>>
    /\ UNCHANGED <<fbVars, riskVars, scVars, ctlVars, fnVars>>

\* a role test that lets every connection through
BroadcastAllowedAnyone(sock) == TRUE

\* if (socket.data && socket.data.userType === 'authority')
BroadcastAllowed(sock) == sockData[sock].userType = "authority"

\* socket.on('authorityBroadcast', data): an authority's data goes to
\* emitAuthorityAlertToTourists, whose throw is answered with broadcastError;
\* any other sender gets broadcastError at once
AuthorityBroadcast(sock, valid, area) ==
    /\ sockState[sock] = "connected"
    /\ lastBroadcast' =
          IF BroadcastAllowed(sock)
          THEN [BroadcastOutcome(valid, area) EXCEPT
                  !.sender = sock,
                  !.reply = IF BroadcastOutcome(valid, area).kind = "rejected"
                            THEN "broadcastError" ELSE "none"]
          ELSE [NoBroadcast EXCEPT !.kind = "unauthorized", !.area = area,
                                   !.live = RoomReceivers(RegisteredTouristSockets),
                                   !.sender = sock, !.valid = valid,
                                   !.reply = "broadcastError"]
    /\ lastSOS' = NoSOS
    /\ lastPush' = NoPush
    /\ UNCHANGED periodic
    /\ UNCHANGED <<io, sockState, sockData, rooms, authoritySockets, touristSockets, touristOrder,
                   touristLastScores, pendingScore>>
    /\ UNCHANGED <<fbVars, riskVars, scVars, ctlVars, fnVars>>

\* ------------------------------------------------- the event broadcasts

\* emitSOSStatusUpdate, emitDangerZoneAdded, emitIncidentReported and
\* emitRiskGridUpdated, by the event each one emits
EventNames == {"sosAlertUpdated", "dangerZoneAdded", "incidentReported", "riskGridUpdated"}

\* every event through io.emit
EventTargetEveryone(event) == "everyone"

\* io.to('authorities').emit(event, data), or io.emit('riskGridUpdated', data)
EventTarget(event) == IF event = "riskGridUpdated" THEN "everyone" ELSE "authorities"

\* the connections an emit to the target reaches
EventReceivers(event) ==
    IF EventTarget(event) = "everyone"
    THEN {sock \in Sockets : sockState[sock] = "connected"}
    ELSE RoomReceivers(rooms.authorities)

\* one call of one of the four functions: if (io) { ...emit(event, data) }
PublishEvent(event) ==
    /\ lastBroadcast' =
          IF io
          THEN [NoBroadcast EXCEPT
                  !.kind = event,
                  !.deliveries = {[sock |-> sock, distanceFromEvent |-> -1] :
                                     sock \in EventReceivers(event)}]
          ELSE [NoBroadcast EXCEPT !.kind = "notInitialised"]
    /\ lastSOS' = NoSOS
    /\ lastPush' = NoPush
    /\ UNCHANGED periodic
    /\ UNCHANGED <<io, sockState, sockData, rooms, authoritySockets, touristSockets, touristOrder,
                   touristLastScores, pendingScore>>
    /\ UNCHANGED <<fbVars, riskVars, scVars, ctlVars, fnVars>>

RtInit ==
    /\ io = FALSE
    /\ sockState = [sock \in Sockets |-> "new"]
    /\ sockData = [sock \in Sockets |-> NoSocketData]
    /\ rooms = [authorities |-> {}, tourists |-> {}]
    /\ authoritySockets = << >>
    /\ touristSockets = << >>
    /\ touristOrder = << >>
    /\ periodic = NoPeriodic
    /\ touristLastScores = << >>
    /\ pendingScore = [sock \in Sockets |-> NoPending]
    /\ lastSOS = NoSOS
    /\ lastBroadcast = NoBroadcast
    /\ lastPush = NoPush

\* =====================================================================
\*                 RiskAggregator (riskEngineService)
\* =====================================================================

\* number of SOS alerts plus incidents in one behaviour
MaxEvents == 3

\* Date.now() at the moments of a behaviour, in days since the epoch: the start,
\* then 14, 30 and 35 days later
Moments == <<1000, 1014, 1030, 1035>>

\* grid cells, by their index along a meridian (cell k is k cell widths north
\* of cell 0); events sit at cell centres
GridIds == {0, 5}
\* GRID_SIZE_DEG on the sphere of $centerSphere, in centimetres
CellWidthCm == 50093
\* the scan radius 2500 m, in centimetres
ScanRadiusCm == 250000
LOOKBACK_DAYS == 30

W_INCIDENT == 40
W_SOS == 50
W_HISTORY_Heavy == W_SOS
W_HISTORY == 10
SOS_BASE_WEIGHT == 340

Abs(x) == IF x < 0 THEN -x ELSE x
Min(x, y) == IF x < y THEN x ELSE y
Max(x, y) == IF x > y THEN x ELSE y

\* severities (x 1000) and SOS safety scores an event can carry
Severities == {600}
SafetyScores == {20, 80}

\* location: { $geoWithin: { $centerSphere: [[lng, lat], 2500 / 6378100] } }
InScan(gridId, cell) == Abs(gridId - cell) * CellWidthCm <= ScanRadiusCm

\* Math.exp(-lambda * hoursAgo) x 1000 with lambda = 2.3 / (durationDays * 24),
\* for whole days
ExpTable(durationDays) ==
    CASE durationDays = 7 ->
           <<1000, 720, 518, 373, 269, 193, 139, 100, 72, 52, 37, 27, 19, 14, 10, 7,
             5, 4, 3, 2, 1, 1, 1, 1>>
      [] durationDays = 14 ->
           <<1000, 848, 720, 611, 518, 440, 373, 317, 269, 228, 193, 164, 139, 118,
             100, 85, 72, 61, 52, 44, 37, 32, 27, 23, 19, 16, 14, 12, 10, 9, 7, 6, 5,
             4, 4, 3, 3, 2, 2, 2, 1, 1, 1, 1, 1>>
      [] durationDays = 30 ->
           <<1000, 926, 858, 795, 736, 682, 631, 585, 542, 502, 465, 430, 399, 369,
             342, 317, 293, 272, 252, 233, 216, 200, 185, 171, 159, 147, 136, 126,
             117, 108, 100, 93, 86, 80, 74, 68, 63, 59, 54, 50, 47, 43, 40, 37, 34>>

Decay(daysAgo, durationDays) ==
    IF daysAgo + 1 <= Len(ExpTable(durationDays))
    THEN ExpTable(durationDays)[daysAgo + 1]
    ELSE 0

RECURSIVE SetMax(_, _)
SetMax(S, floor) ==
    IF S = {} THEN floor
    ELSE LET x == CHOOSE y \in S : TRUE IN Max(x, SetMax(S \ {x}, floor))

RECURSIVE SetMin(_, _)
SetMin(S, ceiling) ==
    IF S = {} THEN ceiling
    ELSE LET x == CHOOSE y \in S : TRUE IN Min(x, SetMin(S \ {x}, ceiling))

\* reduce((acc, alert) => acc + SOS_BASE_WEIGHT * exp(-lambda * hoursAgo), 0)
RECURSIVE TotalSosImpact(_, _, _)
TotalSosImpact(S, t, durationDays) ==
    IF S = {} THEN 0
    ELSE LET a == CHOOSE y \in S : TRUE
         IN (SOS_BASE_WEIGHT * Decay(t - a.timestamp, durationDays)) \div 1000
            + TotalSosImpact(S \ {a}, t, durationDays)

\* reduce((acc, inc) => acc + (inc.severity || 0.5) * exp(-lambda * hoursAgo), 0)
RECURSIVE TotalImpact(_, _, _)
TotalImpact(S, t, durationDays) ==
    IF S = {} THEN 0
    ELSE LET i == CHOOSE y \in S : TRUE
         IN ((IF i.severity = 0 THEN 500 ELSE i.severity)
                * Decay(t - i.timestamp, durationDays)) \div 1000
            + TotalImpact(S \ {i}, t, durationDays)

\* the thresholds as the comments beside them read: severity above 0.8, above 0.6
TierOfExclusive(combinedCount, maxIncidentSeverity, minSosSafetyScore) ==
    IF combinedCount > 5 \/ maxIncidentSeverity > 800 \/ minSosSafetyScore <= 30
    THEN "Critical"
    ELSE IF combinedCount > 2 \/ maxIncidentSeverity > 600 \/ minSosSafetyScore <= 50
    THEN "High"
    ELSE "Standard"

\* the tier thresholds of processGrid
TierOf(combinedCount, maxIncidentSeverity, minSosSafetyScore) ==
    IF combinedCount > 5 \/ maxIncidentSeverity >= 800 \/ minSosSafetyScore <= 30
    THEN "Critical"
    ELSE IF combinedCount > 2 \/ maxIncidentSeverity >= 600 \/ minSosSafetyScore <= 50
    THEN "High"
    ELSE "Standard"

DurationDays(tier) ==
    CASE tier = "Critical" -> 30 [] tier = "High" -> 14 [] tier = "Standard" -> 7

DisplayRadius(tier) ==
    CASE tier = "Critical" -> 1500 [] tier = "High" -> 1000 [] tier = "Standard" -> 500

\* finalScore = Math.min(Math.max(finalScore, 0), 1)
ClampNoCeiling(score) == Max(score, 0)
Clamp(score) == Min(Max(score, 0), 1000)

\* the riskLevel bands
LevelOf(finalScore) ==
    IF finalScore >= 800 THEN "Very High"
    ELSE IF finalScore >= 600 THEN "High"
    ELSE IF finalScore >= 300 THEN "Medium"
    ELSE "Low"

NoGrid == [exists |-> FALSE, riskScore |-> 0, riskLevel |-> "Low", tierLevel |-> "Standard",
           radius |-> 500, expiresAt |-> 0, lastUpdated |-> 0]

\* RiskGrid.findOne({ gridId })
FindOne(grid, gridId) == IF gridId \in DOMAIN grid THEN grid[gridId] ELSE NoGrid

\* the event snapshot processGrid reads for a cell
SosSnapshotNone(gridId, t) == {}
SosSnapshot(gridId, t) ==
    {a \in sosAlerts : InScan(gridId, a.cell) /\ a.timestamp >= t - LOOKBACK_DAYS}

IncidentSnapshot(gridId, t) ==
    {i \in incidents : InScan(gridId, i.cell) /\ i.timestamp >= t - LOOKBACK_DAYS}

\* the history term a processGrid run uses (zero without a previous document)
HistoryTerm(prevGrid, tier, t) ==
    IF prevGrid.exists
    THEN (prevGrid.riskScore * Decay(t - prevGrid.lastUpdated, DurationDays(tier))) \div 1000
    ELSE 0

\* the sliding floor of a tier at time t: 0.8 (Critical) or 0.6 (High) times the
\* share of the tier duration that remains until expiresAt, clamped to [0, 1]
DynamicFloorFixed(tier, expiresAt, t) ==
    IF tier = "Critical" THEN 800 ELSE IF tier = "High" THEN 600 ELSE 0
DynamicFloor(tier, expiresAt, t) ==
    LET remaining == Max(0, Min(DurationDays(tier), expiresAt - t))
    IN IF tier = "Critical" THEN (800 * remaining) \div DurationDays(tier)
       ELSE IF tier = "High" THEN (600 * remaining) \div DurationDays(tier)
       ELSE 0

\* an expiry test that never fires
ExpiredNever(t, expiresAt) == FALSE

\* if (Date.now() > expiresAt.getTime())
Expired(t, expiresAt) == t > expiresAt

\* processGrid from its snapshot: what it persists (exists = FALSE: it deletes)
ProcessGrid(sos, inc, prevGrid, t) ==
    LET maxIncidentSeverity == SetMax({i.severity : i \in inc}, 0)
        minSosSafetyScore == SetMin({a.safetyScore : a \in sos}, 100)
        latestEventTime == SetMax({a.timestamp : a \in sos} \cup {i.timestamp : i \in inc}, 0)
        combinedCount == Cardinality(sos) + Cardinality(inc)
        tier == TierOf(combinedCount, maxIncidentSeverity, minSosSafetyScore)
        durationDays == DurationDays(tier)
        expiresAt == latestEventTime + durationDays
        sosScore == IF sos # {} THEN Min(TotalSosImpact(sos, t, durationDays), 1000) ELSE 0
        incidentScore == IF inc # {} THEN Min(TotalImpact(inc, t, durationDays), 1000) ELSE 0
        historyScore == HistoryTerm(prevGrid, tier, t)
        adaptive == incidentScore = 0 /\ sosScore > 0
        wIncident == IF adaptive THEN (IF tier = "Critical" THEN 0 ELSE 10) ELSE W_INCIDENT
        wSos == IF adaptive THEN (IF tier = "Critical" THEN 95 ELSE 80) ELSE W_SOS
        weighted == (wIncident * incidentScore + wSos * sosScore
                       + W_HISTORY * historyScore) \div 100
        floored == Max(weighted, DynamicFloor(tier, expiresAt, t))
        finalScore == Clamp(floored)
    IN IF Expired(t, expiresAt)
       THEN [NoGrid EXCEPT !.tierLevel = tier, !.expiresAt = expiresAt]
       ELSE [exists |-> TRUE, riskScore |-> finalScore, riskLevel |-> LevelOf(finalScore),
             tierLevel |-> tier, radius |-> DisplayRadius(tier), expiresAt |-> expiresAt,
             lastUpdated |-> t]

\* RiskGrid.deleteOne / RiskGrid.findOneAndUpdate(..., { upsert: true })
PersistNoDelete(grid, gridId, doc) ==
    IF doc.exists
    THEN [g \in DOMAIN grid \cup {gridId} |-> IF g = gridId THEN doc ELSE grid[g]]
    ELSE grid
Persist(grid, gridId, doc) ==
    IF doc.exists
    THEN [g \in DOMAIN grid \cup {gridId} |-> IF g = gridId THEN doc ELSE grid[g]]
    ELSE [g \in DOMAIN grid \ {gridId} |-> grid[g]]

NoRun == [gridId |-> -1, history |-> 0, after |-> NoGrid, repeat |-> FALSE,
          afterFirst |-> NoGrid, historyFirst |-> 0]

\* one processGrid(gridId) call at the current time; lastRun keeps the history
\* term it used, what it left persisted, and whether it repeats the run before
\* it: the same cell, with no event stored and no time passed since (lastRun is
\* cleared by both), hence the same event snapshot and the same current time
RunProcessGrid(gridId) ==
    LET sos == SosSnapshot(gridId, now)
        inc == IncidentSnapshot(gridId, now)
        prevGrid == FindOne(riskGrid, gridId)
        doc == ProcessGrid(sos, inc, prevGrid, now)
        after == IF doc.exists THEN doc ELSE NoGrid
    IN /\ riskGrid' = Persist(riskGrid, gridId, doc)
       /\ lastRun' = [gridId |-> gridId,
                      history |-> HistoryTerm(prevGrid, doc.tierLevel, now),
                      after |-> after,
                      repeat |-> lastRun.gridId = gridId,
                      afterFirst |-> IF lastRun.gridId = gridId THEN lastRun.after
                                     ELSE NoGrid,
                      historyFirst |-> IF lastRun.gridId = gridId THEN lastRun.history
                                       ELSE 0]

\* updateGridForLocation(lat, lng): processGrid of the cell of the location
UpdateGridForLocation(gridId) ==
    /\ RunProcessGrid(gridId)
    /\ UNCHANGED <<now, sosAlerts, incidents, passState, passActive, passQueue,
                   passDone, passFailed>>
    /\ UNCHANGED <<fbVars, rtVars, scVars, ctlVars, fnVars>>

EventCount == Cardinality(sosAlerts) + Cardinality(incidents)

\* triggerSOS: await sosAlert.save()
SaveSOSAlert(cell, safetyScore) ==
    /\ EventCount < MaxEvents
    /\ sosAlerts' = sosAlerts \cup
          {[id |-> EventCount + 1, cell |-> cell, timestamp |-> now,
            safetyScore |-> safetyScore]}
    /\ lastRun' = NoRun
    /\ UNCHANGED <<now, incidents, riskGrid, passState, passActive, passQueue,
                   passDone, passFailed>>
    /\ UNCHANGED <<fbVars, rtVars, scVars, ctlVars, fnVars>>

\* an Incident document is stored
SaveIncident(cell, severity) ==
    /\ EventCount < MaxEvents
    /\ incidents' = incidents \cup
          {[id |-> EventCount + 1, cell |-> cell, timestamp |-> now,
            severity |-> severity]}
    /\ lastRun' = NoRun
    /\ UNCHANGED <<now, sosAlerts, riskGrid, passState, passActive, passQueue,
                   passDone, passFailed>>
    /\ UNCHANGED <<fbVars, rtVars, scVars, ctlVars, fnVars>>

\* the clock advances to the next moment
Tick ==
    /\ \E i \in 1..(Len(Moments) - 1) : now = Moments[i] /\ now' = Moments[i + 1]
    /\ lastRun' = NoRun
    /\ UNCHANGED <<sosAlerts, incidents, riskGrid, passState, passActive, passQueue,
                   passDone, passFailed>>
    /\ UNCHANGED <<fbVars, rtVars, scVars, ctlVars, fnVars>>

\* sequences that list every element of S once
Orderings(S) ==
    {q \in [1..Cardinality(S) -> S] : \A i, j \in 1..Cardinality(S) : q[i] = q[j] => i = j}

\* an active set without the persisted cells
ExistingGridsNone == {}

\* const existingGrids = await RiskGrid.find({}): their gridIds
ExistingGrids == DOMAIN riskGrid

\* updateRiskScores up to its for-loop: activeGridIds, in insertion order
\* (cells of recent SOS alerts, then of recent incidents, then persisted cells)
StartPass ==
    /\ passState # "running"
    /\ LET fromSos == {a.cell : a \in {x \in sosAlerts : x.timestamp >= now - LOOKBACK_DAYS}}
           fromInc == {i.cell : i \in {x \in incidents : x.timestamp >= now - LOOKBACK_DAYS}}
                         \ fromSos
           existing == ExistingGrids \ (fromSos \cup fromInc)
       IN /\ passActive' = fromSos \cup fromInc \cup existing
          /\ \E q1 \in Orderings(fromSos), q2 \in Orderings(fromInc),
                q3 \in Orderings(existing) :
                passQueue' = q1 \o q2 \o q3
    /\ passState' = "running"
    /\ passDone' = {}
    /\ passFailed' = {}
    /\ UNCHANGED <<now, sosAlerts, incidents, riskGrid, lastRun>>
    /\ UNCHANGED <<fbVars, rtVars, scVars, ctlVars, fnVars>>

\* what a throwing processGrid call does to the pass: nothing catches it inside
\* updateRiskScores, so the for-loop ends there
PassAfterThrow == "aborted"

\* one iteration of for (const gid of activeGridIds) await processGrid(gid)
PassStep(throws) ==
    /\ passState = "running"
    /\ passQueue # << >>
    /\ LET gid == Head(passQueue)
       IN IF throws
          THEN /\ passFailed' = passFailed \cup {gid}
               /\ passState' = PassAfterThrow
               /\ passQueue' = Tail(passQueue)
               /\ UNCHANGED <<riskGrid, lastRun, passDone>>
          ELSE /\ RunProcessGrid(gid)
               /\ passDone' = passDone \cup {gid}
               /\ passQueue' = Tail(passQueue)
               /\ passState' = IF Tail(passQueue) = << >> THEN "complete" ELSE "running"
               /\ UNCHANGED passFailed
    /\ UNCHANGED <<now, sosAlerts, incidents, passActive>>
    /\ UNCHANGED <<fbVars, rtVars, scVars, ctlVars, fnVars>>

\* a pass over an empty active set
PassEmpty ==
    /\ passState = "running"
    /\ passQueue = << >>
    /\ passState' = "complete"
    /\ UNCHANGED <<now, sosAlerts, incidents, riskGrid, passActive, passQueue,
                   passDone, passFailed, lastRun>>
    /\ UNCHANGED <<fbVars, rtVars, scVars, ctlVars, fnVars>>

RiskInit ==
    /\ now = Moments[1]
    /\ sosAlerts = {}
    /\ incidents = {}
    /\ riskGrid = << >>
    /\ passState = "idle"
    /\ passActive = {}
    /\ passQueue = << >>
    /\ passDone = {}
    /\ passFailed = {}
    /\ lastRun = NoRun

\* =====================================================================
\*                 SafetyScorer (safetyScoreService)
\* =====================================================================

\* number of threat documents in the collections the scorer reads
MaxThreats == 3

\* CONFIG: distances in metres, penalties in points
DANGER_ZONE_CRITICAL_DISTANCE == 100
DANGER_ZONE_HIGH_DISTANCE == 500
DANGER_ZONE_MEDIUM_DISTANCE == 2000
DANGER_ZONE_LOW_DISTANCE == 5000
RISK_GRID_CRITICAL_DISTANCE == 100
RISK_GRID_HIGH_DISTANCE == 500
RISK_GRID_MEDIUM_DISTANCE == 1500
RISK_GRID_LOW_DISTANCE == 3000
BASE_SCORE == 100
SEARCH_RADIUS == 10000
SOS_RADIUS_M == 2500
INCIDENT_RADIUS_M == 4000
MAX_SOS_PENALTY == 40
MAX_INCIDENT_PENALTY == 45

\* points lie on one meridian, a position being its distance in metres from a
\* reference point: there the Haversine distance is the difference of positions
ScDistance(p, q) == Abs(p - q)

\* $geoWithin $centerSphere [centre, radiusM / 6378100]: the angle is taken on
\* a sphere of 6378100 m, the distances of calculateDistance on one of 6371000 m
WithinCenterSphere(distance, radiusM) == distance * 63781 <= radiusM * 63710

\* getRiskSeverity, in thousandths
getRiskSeverity(riskLevel) ==
    CASE riskLevel = "Low" -> 200
      [] riskLevel = "Medium" -> 500
      [] riskLevel = "High" -> 750
      [] riskLevel = "Very High" -> 1000
      [] OTHER -> 300

\* the distance zones calculateThreatImpact uses; customRadius = 0 is none
ThreatConfig(type, customRadius) ==
    IF type = "risk_grid" /\ customRadius # 0
    THEN [critical |-> customRadius, high |-> customRadius + 500,
          medium |-> customRadius + 1500, low |-> customRadius + 3000]
    ELSE IF type = "danger_zone"
    THEN [critical |-> DANGER_ZONE_CRITICAL_DISTANCE, high |-> DANGER_ZONE_HIGH_DISTANCE,
          medium |-> DANGER_ZONE_MEDIUM_DISTANCE, low |-> DANGER_ZONE_LOW_DISTANCE]
    ELSE [critical |-> RISK_GRID_CRITICAL_DISTANCE, high |-> RISK_GRID_HIGH_DISTANCE,
          medium |-> RISK_GRID_MEDIUM_DISTANCE, low |-> RISK_GRID_LOW_DISTANCE]

\* impactMultiplier of calculateThreatImpact, in thousandths (0 beyond the
\* monitoring range, where the function returns 0)
ImpactMultiplierRising(distance, config) ==
    IF distance <= config.critical THEN 1000
    ELSE IF distance <= config.high
    THEN 700 + (300 * (config.high - distance)) \div (config.high - config.critical)
    ELSE IF distance <= config.medium
    THEN 400 + (300 * (distance - config.high)) \div (config.medium - config.high)
    ELSE IF distance <= config.low
    THEN 100 + (300 * (config.low - distance)) \div (config.low - config.medium)
    ELSE 0
ImpactMultiplier(distance, config) ==
    IF distance <= config.critical THEN 1000
    ELSE IF distance <= config.high
    THEN 700 + (300 * (config.high - distance)) \div (config.high - config.critical)
    ELSE IF distance <= config.medium
    THEN 400 + (300 * (config.medium - distance)) \div (config.medium - config.high)
    ELSE IF distance <= config.low
    THEN 100 + (300 * (config.low - distance)) \div (config.low - config.medium)
    ELSE 0

\* calculateThreatImpact: severity * impactMultiplier * maxPenalty, in
\* thousandths of a point (severity in thousandths)
calculateThreatImpact(distance, severity, type, customRadius) ==
    LET maxPenalty == IF type = "danger_zone" THEN 70 ELSE 50
    IN (severity * ImpactMultiplier(distance, ThreatConfig(type, customRadius))
          * maxPenalty) \div 1000

\* proximityPenalty: linear decay, in thousandths of a point
proximityPenalty(distance, maxRadius, severity, maxPenalty) ==
    IF distance > maxRadius THEN 0
    ELSE (severity * ((1000 * (maxRadius - distance)) \div maxRadius) * maxPenalty)
            \div 1000

\* formatReasonText on the texts of the model
formatReasonText(text) ==
    CASE text = "" -> "Safety Concern"
      [] text = "IMMEDIATE PANIC" -> "Emergency Alert"
      [] text = "sos" -> "Distress Signal"
      [] text = "medical" -> "Medical Emergency"
      [] text = "theft" -> "Theft"
      [] text = "Theft" -> "Theft"
      [] text = "assault" -> "Assault"
      [] text = "riot" -> "Riot"
      [] text = "Nearby SOS" -> "Nearby Sos"
      [] text = "Incident" -> "Incident"
      [] text = "Zone A" -> "Zone A"
      [] text = "phone stolen" -> "Phone Stolen"
      [] OTHER -> text

\* ------------------------------------------------- calculateSafetyScore

\* a threats[] entry; raw is the impact before Math.round, pos and radius
\* locate the document the entry came from
ThreatEntry(type, name, category, distance, raw, isInside, pos, radius, reasons) ==
    [type |-> type, name |-> name, category |-> category, distance |-> distance,
     impact |-> MathRound(raw), raw |-> raw, isInside |-> isInside,
     pos |-> pos, radius |-> radius, reasons |-> reasons]

\* [f(s[1]), ..., f(s[n])]
MapSeq(s, f(_)) == [i \in 1..Len(s) |-> f(s[i])]

\* grid.radius || 500
GridRadius(grid) == IF grid.radius = 0 THEN 500 ELSE grid.radius

\* a stable sort by distance, nearest first: the order of $near and of
\* dangerZonesInRange.sort((a, b) => a.distance - b.distance)
RECURSIVE InsertByDistance(_, _)
InsertByDistance(sorted, x) ==
    IF sorted = << >> THEN <<x>>
    ELSE IF x.distance < sorted[Len(sorted)].distance
         THEN Append(InsertByDistance(SubSeq(sorted, 1, Len(sorted) - 1), x),
                     sorted[Len(sorted)])
         ELSE Append(sorted, x)

RECURSIVE SortByDistance(_)
SortByDistance(s) ==
    IF s = << >> THEN << >>
    ELSE InsertByDistance(SortByDistance(SubSeq(s, 1, Len(s) - 1)), s[Len(s)])

\* section 1: the risk grids the $near query returns (nearest first), each
\* penalised when it is within its monitoring range and its impact is positive
GridThreats(grids, lat) ==
    LET Impact(grid) == calculateThreatImpact(ScDistance(lat, grid.pos), grid.riskScore,
                                              "risk_grid", GridRadius(grid))
        Penalised(grid) ==
            /\ ScDistance(lat, grid.pos) <= SEARCH_RADIUS
            /\ grid.riskScore > 100
            /\ ScDistance(lat, grid.pos) <= GridRadius(grid) + 3000
            /\ Impact(grid) > 0
        Entry(grid) ==
            ThreatEntry("risk_grid",
                        IF grid.gridName = "" THEN "Risk Zone" ELSE grid.gridName, "",
                        ScDistance(lat, grid.pos), Impact(grid), FALSE,
                        grid.pos, GridRadius(grid), grid.reasons)
    IN SortByDistance(MapSeq(SelectSeq(grids, Penalised), Entry))

\* section 2: danger zones, by distance from the edge (circle) or the centre
ZoneThreats(zones, lat) ==
    LET IsCircle(zone) == zone.type = "circle" /\ zone.radiusKm # 0
        Inside(zone) == IsCircle(zone) /\ ScDistance(lat, zone.pos) <= zone.radiusKm * 1000
        Dist(zone) == IF Inside(zone) THEN 0
                      ELSE IF IsCircle(zone)
                      THEN ScDistance(lat, zone.pos) - zone.radiusKm * 1000
                      ELSE ScDistance(lat, zone.pos)
        InRange(zone) == Inside(zone) \/ Dist(zone) <= DANGER_ZONE_LOW_DISTANCE
        Ranged(zone) == [zone |-> zone, distance |-> Dist(zone), isInside |-> Inside(zone)]
        Impact(z) == calculateThreatImpact(z.distance, getRiskSeverity(z.zone.riskLevel),
                                           "danger_zone", 0)
        Positive(z) == Impact(z) > 0
        Entry(z) == ThreatEntry("danger_zone", z.zone.name, "", z.distance, Impact(z),
                                z.isInside, z.zone.pos, 0, << >>)
        inRange == SortByDistance(MapSeq(SelectSeq(zones, InRange), Ranged))
    IN MapSeq(SelectSeq(SubSeq(inRange, 1, Min(Len(inRange), 10)), Positive), Entry)

\* isCoveredByGrid: the point is in the circle of a penalised grid
IsCoveredNever(pos, penalizedGridZones) == FALSE
IsCoveredByGrid(pos, penalizedGridZones) ==
    \E i \in 1..Len(penalizedGridZones) :
        ScDistance(pos, penalizedGridZones[i].pos) <= penalizedGridZones[i].radius

\* section 3: SOS alerts of the $geoWithin query that no penalised grid covers
SosThreats(sos, lat, penalizedGridZones) ==
    LET Severity(a) ==
            Max(0, Min(1000, (100 - (IF a.safetyScore = 0 THEN 70 ELSE a.safetyScore)) * 10))
        Impact(a) == proximityPenalty(ScDistance(lat, a.pos), SOS_RADIUS_M, Severity(a),
                                      MAX_SOS_PENALTY)
        Counted(a) ==
            /\ WithinCenterSphere(ScDistance(lat, a.pos), SOS_RADIUS_M)
            /\ ~IsCoveredByGrid(a.pos, penalizedGridZones)
            /\ Impact(a) > 0
        Entry(a) == ThreatEntry("sos_alert",
                                formatReasonText(IF a.reason = "" THEN "Nearby SOS"
                                                 ELSE a.reason),
                                "SOS Alert", ScDistance(lat, a.pos), Impact(a), FALSE,
                                a.pos, 0, << >>)
    IN MapSeq(SelectSeq(sos, Counted), Entry)

\* section 4: incidents of the $geoWithin query that no penalised grid covers
IncidentThreats(incs, lat, penalizedGridZones) ==
    LET Severity(i) == Max(0, Min(1000, IF i.severity = 0 THEN 600 ELSE i.severity))
        Impact(i) == proximityPenalty(ScDistance(lat, i.pos), INCIDENT_RADIUS_M,
                                      Severity(i), MAX_INCIDENT_PENALTY)
        Counted(i) ==
            /\ WithinCenterSphere(ScDistance(lat, i.pos), INCIDENT_RADIUS_M)
            /\ ~IsCoveredByGrid(i.pos, penalizedGridZones)
            /\ Impact(i) > 0
        Entry(i) == ThreatEntry("incident",
                                formatReasonText(IF i.title = "" THEN "Incident" ELSE i.title),
                                formatReasonText(IF i.type = "" THEN "Incident" ELSE i.type),
                                ScDistance(lat, i.pos), Impact(i), FALSE, i.pos, 0, << >>)
    IN MapSeq(SelectSeq(incs, Counted), Entry)

\* threats.sort((a, b) => b.impact - a.impact), a stable sort
RECURSIVE InsertByImpact(_, _)
InsertByImpact(sorted, x) ==
    IF sorted = << >> THEN <<x>>
    ELSE IF x.impact > sorted[Len(sorted)].impact
         THEN Append(InsertByImpact(SubSeq(sorted, 1, Len(sorted) - 1), x),
                     sorted[Len(sorted)])
         ELSE Append(sorted, x)

RECURSIVE SortByImpact(_)
SortByImpact(s) ==
    IF s = << >> THEN << >>
    ELSE InsertByImpact(SortByImpact(SubSeq(s, 1, Len(s) - 1)), s[Len(s)])

\* totalPenalty: the sum of the impacts, in thousandths of a point
RECURSIVE TotalPenalty(_)
TotalPenalty(threats) ==
    IF threats = << >> THEN 0
    ELSE threats[Len(threats)].raw + TotalPenalty(SubSeq(threats, 1, Len(threats) - 1))

\* Math.max(0, Math.min(100, finalScore)), in thousandths of a point
ScoreClampNoFloor(finalScore) == Min(BASE_SCORE * 1000, finalScore)
ScoreClamp(finalScore) == Max(0, Min(BASE_SCORE * 1000, finalScore))

\* the safetyLevel bands
SafetyLevelOf(finalScore) ==
    IF finalScore >= 90 THEN "EXCELLENT"
    ELSE IF finalScore >= 70 THEN "GOOD"
    ELSE IF finalScore >= 50 THEN "FAIR"
    ELSE IF finalScore >= 30 THEN "POOR"
    ELSE "CRITICAL"

\* uniqueReasons.add(x): a Set keeps insertion order and no duplicate
SetAdd(set, x) == IF \E i \in 1..Len(set) : set[i] = x THEN set ELSE Append(set, x)

\* t.reasons.forEach(r => { txt = r.eventType || r.title; if (txt) add(format(txt)) })
RECURSIVE AddGridReasons(_, _, _)
AddGridReasons(set, reasons, i) ==
    IF i > Len(reasons) THEN set
    ELSE LET txt == IF reasons[i].eventType # "" THEN reasons[i].eventType
                    ELSE reasons[i].title
         IN AddGridReasons(IF txt # "" THEN SetAdd(set, formatReasonText(txt)) ELSE set,
                           reasons, i + 1)

\* the loop over the sorted threats that fills uniqueReasons
RECURSIVE CollectReasons(_, _, _)
CollectReasons(threats, i, set) ==
    IF i > Len(threats) \/ Len(set) >= 3 THEN set
    ELSE LET t == threats[i]
         IN CollectReasons(threats, i + 1,
               IF t.type = "risk_grid" /\ Len(t.reasons) > 0
               THEN AddGridReasons(set, t.reasons, 1)
               ELSE IF t.category # "" THEN SetAdd(set, t.category)
               ELSE IF t.name # "" THEN SetAdd(set, formatReasonText(t.name))
               ELSE set)

\* the result of the catch block
DefaultScore ==
    [safetyScore |-> 80, safetyLevel |-> "GOOD", reasons |-> << >>, totalThreats |-> 0,
     threats |-> << >>, error |-> TRUE, totalPenalty |-> 0, allThreats |-> << >>]

\* the try block of calculateSafetyScore(lat, lng) on the collections of data;
\* reasons is the content of uniqueReasons, totalPenalty and allThreats are the
\* locals of those names
ComputeSafetyScore(data, lat) ==
    LET gridThreats == GridThreats(data.grids, lat)
        penalizedGridZones == gridThreats
        threats == gridThreats \o ZoneThreats(data.zones, lat)
                     \o SosThreats(data.sos, lat, penalizedGridZones)
                     \o IncidentThreats(data.incidents, lat, penalizedGridZones)
        totalPenalty == TotalPenalty(threats)
        finalScore == MathRound(ScoreClamp(BASE_SCORE * 1000 - totalPenalty))
        sorted == SortByImpact(threats)
    IN [safetyScore |-> finalScore,
        safetyLevel |-> SafetyLevelOf(finalScore),
        reasons |-> IF finalScore < 90 /\ Len(sorted) > 0
                    THEN CollectReasons(sorted, 1, << >>) ELSE << >>,
        totalThreats |-> Len(sorted),
        threats |-> SubSeq(sorted, 1, Min(Len(sorted), 5)),
        error |-> FALSE,
        totalPenalty |-> totalPenalty,
        allThreats |-> sorted]

\* how a call ends whose try block threw: the catch returns the default
CalculateSafetyScoreRethrow == "raised"
CalculateSafetyScoreCatch == "returned"

NoScore == [called |-> FALSE, lat |-> 0, failed |-> FALSE, outcome |-> "none",
            result |-> DefaultScore]

\* the documents of the model: risk grids, danger zones, SOS alerts, incidents
GridReasons ==
    <<[eventType |-> "sos", title |-> "IMMEDIATE PANIC"],
      [eventType |-> "theft", title |-> "phone stolen"],
      [eventType |-> "Theft", title |-> "phone stolen"],
      [eventType |-> "assault", title |-> ""],
      [eventType |-> "", title |-> "riot"]>>

GridDocs ==
    {[pos |-> 0, radius |-> 500, riskScore |-> 900, riskLevel |-> "Very High",
      gridName |-> "", reasons |-> GridReasons],
     [pos |-> 0, radius |-> 0, riskScore |-> 50, riskLevel |-> "Low",
      gridName |-> "Zone A", reasons |-> << >>],
     [pos |-> 4000, radius |-> 1500, riskScore |-> 600, riskLevel |-> "High",
      gridName |-> "Zone A", reasons |-> << >>]}

ZoneDocs ==
    {[pos |-> 0, type |-> "circle", radiusKm |-> 1, riskLevel |-> "Very High",
      name |-> "riot"],
     [pos |-> 1000, type |-> "point", radiusKm |-> 0, riskLevel |-> "Medium",
      name |-> "theft"]}

SosDocs ==
    {[pos |-> 300, safetyScore |-> 20, reason |-> "IMMEDIATE PANIC"],
     [pos |-> 800, safetyScore |-> 0, reason |-> ""]}

IncidentDocs ==
    {[pos |-> 500, severity |-> 900, type |-> "theft", title |-> "phone stolen"],
     [pos |-> 2000, severity |-> 0, type |-> "", title |-> ""]}

\* the positions calculateSafetyScore is called for
QueryPoints == {0, 500, 1000, 2000, 2797, 2798, 3500, 3501, 6100}

ThreatCount ==
    Len(threatData.grids) + Len(threatData.zones) + Len(threatData.sos)
      + Len(threatData.incidents)

\* a document is stored in one of the collections the scorer reads
StoreThreat(collection, doc) ==
    /\ ThreatCount < MaxThreats
    /\ threatData' = [threatData EXCEPT ![collection] = Append(@, doc)]
    /\ lastScore' = NoScore
    /\ UNCHANGED notifyCall
    /\ UNCHANGED <<fbVars, rtVars, riskVars, ctlVars, fnVars>>

\* one calculateSafetyScore(lat, lng) call; fails: a query or a computation of
\* the try block throws
CalculateSafetyScore(lat, fails) ==
    /\ lastScore' = [called |-> TRUE, lat |-> lat, failed |-> fails,
                     outcome |-> IF fails THEN CalculateSafetyScoreCatch ELSE "returned",
                     result |-> IF fails THEN DefaultScore
                                ELSE ComputeSafetyScore(threatData, lat)]
    /\ UNCHANGED <<threatData, notifyCall>>
    /\ UNCHANGED <<fbVars, rtVars, riskVars, ctlVars, fnVars>>

\* ------------------------------------------------- shouldNotifyScoreChange

\* safety scores
Scores == 0..BASE_SCORE

NoNotifyCall == [called |-> FALSE, oldScore |-> 0, newScore |-> 0, type |-> "null"]

\* one shouldNotifyScoreChange(oldScore, newScore) call, up to its return value
NotifyCall(oldScore, newScore) ==
    /\ ~notifyCall.called
    /\ notifyCall' = [called |-> TRUE, oldScore |-> oldScore, newScore |-> newScore,
                      type |-> shouldNotifyScoreChange(oldScore, newScore)]
    /\ UNCHANGED <<threatData, lastScore>>
    /\ UNCHANGED <<fbVars, rtVars, riskVars, ctlVars, fnVars>>

\* the caller has taken the return value
NotifyReturn ==
    /\ notifyCall.called
    /\ notifyCall' = NoNotifyCall
    /\ UNCHANGED <<threatData, lastScore>>
    /\ UNCHANGED <<fbVars, rtVars, riskVars, ctlVars, fnVars>>

ScInit ==
    /\ threatData = [grids |-> << >>, zones |-> << >>, sos |-> << >>, incidents |-> << >>]
    /\ lastScore = NoScore
    /\ notifyCall = NoNotifyCall

\* ------------------------------------------------- triggerSOS

\* the cell of the location in the request body
RequestCell == 0

\* effects.push: the request of alert a did the thing named kind
Effect(a, kind) == [alert |-> a, kind |-> kind]

\* nothing saved, nothing answered
NoRequestData == [sosId |-> 0, gridUpdated |-> NoGrid]

\* triggerSOS up to await sosAlert.save(). entry "rejected": no touristId or
\* coordinates, or an unknown tourist, answered 400 or 404; entry "failed": a
\* query, decrypt or the save throws, and the outer catch calls next(err)
TriggerSave(a, entry, safetyScore) ==
    /\ reqPc[a] = "idle"
    /\ IF entry = "ok"
       THEN /\ EventCount < MaxEvents
            /\ sosAlerts' = sosAlerts \cup
                  {[id |-> EventCount + 1, cell |-> RequestCell, timestamp |-> now,
                    safetyScore |-> safetyScore]}
            /\ reqPc' = [reqPc EXCEPT ![a] = "saved"]
            /\ reqData' = [reqData EXCEPT ![a].sosId = EventCount + 1]
            /\ effects' = Append(effects, Effect(a, "saved"))
       ELSE /\ reqPc' = [reqPc EXCEPT ![a] = "done"]
            /\ effects' = Append(effects, Effect(a, IF entry = "rejected"
                                                    THEN "errorResponse" ELSE "next"))
            /\ UNCHANGED <<sosAlerts, reqData>>
    /\ lastRun' = NoRun
    /\ UNCHANGED <<now, incidents, riskGrid, passState, passActive, passQueue,
                   passDone, passFailed>>
    /\ UNCHANGED <<fbVars, rtVars, scVars, fnVars>>
    /\ UNCHANGED ledger

\* where an error of the grid-update try block ends: in its own catch, which
\* logs it and lets the request go on
TriggerGridOuterCatch == "outer"
TriggerGridCatch == "caught"

\* what triggerSOS does, in order, once await updateGridForLocation has
\* settled: the grid-updated broadcast when a grid came back (emitRiskGridUpdated
\* emits when io is set; its rejection is caught and logged), res.json, and the
\* emitSOSAlert call of the first fire-and-forget task
EffectsAfterGridUpdate(a, updatedGrid, gridEmitThrows) ==
    (IF updatedGrid.exists /\ io
     THEN <<Effect(a, IF gridEmitThrows THEN "gridEmitError" ELSE "gridEmit")>>
     ELSE << >>)
      \o <<Effect(a, "response"), Effect(a, "sosEmit")>>

\* triggerSOS from await updateGridForLocation(lat, lng) to the await of the
\* ledger task; throws: updateGridForLocation rejected
TriggerGridUpdate(a, throws, gridEmitThrows, emitThrows, connectOk, setOk, expireOk) ==
    /\ reqPc[a] = "saved"
    /\ IF throws /\ TriggerGridCatch # "caught"
       THEN /\ effects' = Append(effects, Effect(a, "next"))
            /\ reqPc' = [reqPc EXCEPT ![a] = "done"]
            /\ lastRun' = NoRun
            /\ UNCHANGED <<riskGrid, reqData>>
            /\ UNCHANGED <<fbVars, rtVars>>
       ELSE /\ IF throws
               THEN /\ UNCHANGED riskGrid
                    /\ lastRun' = NoRun
                    /\ reqData' = [reqData EXCEPT ![a].gridUpdated = NoGrid]
                    /\ effects' = effects \o <<Effect(a, "gridError")>>
                                     \o EffectsAfterGridUpdate(a, NoGrid, gridEmitThrows)
               ELSE /\ RunProcessGrid(RequestCell)
                    /\ reqData' = [reqData EXCEPT
                                     ![a].gridUpdated = FindOne(riskGrid', RequestCell)]
                    /\ effects' = effects \o
                          EffectsAfterGridUpdate(a, FindOne(riskGrid', RequestCell),
                                                 gridEmitThrows)
            /\ EmitSOSAlertCall(a, emitThrows, connectOk, setOk, expireOk)
            /\ reqPc' = [reqPc EXCEPT ![a] = "responded"]
    /\ UNCHANGED <<now, sosAlerts, incidents, passState, passActive, passQueue,
                   passDone, passFailed>>
    /\ UNCHANGED <<scVars, fnVars>>
    /\ UNCHANGED ledger

\* the second fire-and-forget task after await import("uuid"): the alert is
\* queued for contract.logAlert; ok: nothing in the task throws (an error is
\* caught and logged inside the task)
TriggerLedger(a, ok) ==
    /\ reqPc[a] = "responded"
    /\ reqPc' = [reqPc EXCEPT ![a] = "done"]
    /\ effects' = Append(effects, Effect(a, IF ok THEN "ledger" ELSE "ledgerError"))
    /\ UNCHANGED reqData
    /\ UNCHANGED <<fbVars, rtVars, riskVars, scVars, fnVars>>
    /\ UNCHANGED ledger

\* ------------------------------------------------- global.sosQueue

\* the ledger tasks of concurrent triggerSOS requests
MaxJobs == 3
LedgerJobs == 1..MaxJobs

\* an error of the queued callback that leaves it
LedgerCatchRethrown == "rethrown"

\* the try/catch around the whole body of the callback given to then()
LedgerCatch == "caught"

\* the promise of a queued callback: fulfilled, rejected or pending
PromiseOf(state) ==
    IF state = "ok" \/ (state = "failed" /\ LedgerCatch = "caught") THEN "fulfilled"
    ELSE IF state \in {"failed", "skipped"} THEN "rejected"
    ELSE "pending"

\* the promise the callback of the job at position i was chained to:
\* Promise.resolve() for the first, else the promise of the one queued before
Predecessor(i) ==
    IF i = 1 THEN "fulfilled" ELSE PromiseOf(ledger.state[ledger.queue[i - 1]])

\* global.sosQueue = global.sosQueue.then(async () => { ... })
LedgerEnqueue(job) ==
    /\ ledger.state[job] = "idle"
    /\ ledger' = [queue |-> Append(ledger.queue, job),
                  state |-> [ledger.state EXCEPT ![job] = "queued"]]
    /\ UNCHANGED <<reqPc, reqData, effects>>
    /\ UNCHANGED <<fbVars, rtVars, riskVars, scVars, fnVars>>

\* the promise before the job settles: then() calls the callback, which sends
\* contract.logAlert, when it is fulfilled, and passes a rejection on without
\* calling it
LedgerStart(job) ==
    /\ ledger.state[job] = "queued"
    /\ \E i \in 1..Len(ledger.queue) :
          /\ ledger.queue[i] = job
          /\ Predecessor(i) # "pending"
          /\ ledger' = [ledger EXCEPT !.state[job] =
                IF Predecessor(i) = "fulfilled" THEN "running" ELSE "skipped"]
    /\ UNCHANGED <<reqPc, reqData, effects>>
    /\ UNCHANGED <<fbVars, rtVars, riskVars, scVars, fnVars>>

\* logAlert, tx.wait, findById and save went through, or one of them threw
LedgerFinish(job, ok) ==
    /\ ledger.state[job] = "running"
    /\ ledger' = [ledger EXCEPT !.state[job] = IF ok THEN "ok" ELSE "failed"]
    /\ UNCHANGED <<reqPc, reqData, effects>>
    /\ UNCHANGED <<fbVars, rtVars, riskVars, scVars, fnVars>>

CtlInit ==
    /\ reqPc = [a \in AlertIds |-> "idle"]
    /\ reqData = [a \in AlertIds |-> NoRequestData]
    /\ effects = << >>
    /\ ledger = [queue |-> << >>, state |-> [job \in LedgerJobs |-> "idle"]]

\* ------------------------------------------------- getGridIdAndCenter

\* coordinates are in millionths of a degree; GRID_SIZE_DEG = 0.0045
GRID_SIZE_DEG == 4500

\* Math.floor(x / GRID_SIZE_DEG) * GRID_SIZE_DEG + GRID_SIZE_DEG / 2
Snap(x) == (x \div GRID_SIZE_DEG) * GRID_SIZE_DEG + GRID_SIZE_DEG \div 2

\* Number.prototype.toFixed with 2 digits: hundredths of a degree
ToFixed2(x) ==
    IF x >= 0 THEN ((x + 5000) \div 10000) * 10000
    ELSE -(((-x) + 5000) \div 10000) * 10000

\* snapped.toFixed(5): the nearest multiple of 0.00001, halves away from zero
ToFixed5(x) ==
    IF x >= 0 THEN ((x + 5) \div 10) * 10
    ELSE -(((-x) + 5) \div 10) * 10

\* gridId is `${lat}_${lng}` of the two snapped values, center is [lng, lat]
getGridIdAndCenter(lat, lng) ==
    [gridId |-> <<ToFixed5(Snap(lat)), ToFixed5(Snap(lng))>>,
     center |-> <<Snap(lng), Snap(lat)>>]

\* the cell of a point: the index of its 0.0045-degree interval on each axis
CellIndex(lat, lng) == <<lat \div GRID_SIZE_DEG, lng \div GRID_SIZE_DEG>>

\* latitudes and longitudes around cell borders, the origin and the two signs
CellLats == {-4501, -4500, -1, 0, 1, 4499, 4500, 8999, 9000, 28614000}
CellLngs == {-4500, -1, 0, 4499, 4500, 77209000}

NoCellCall ==
    [called |-> FALSE, a |-> <<0, 0>>, b |-> <<0, 0>>,
     ofA |-> getGridIdAndCenter(0, 0), again |-> getGridIdAndCenter(0, 0),
     ofB |-> getGridIdAndCenter(0, 0)]

\* getGridIdAndCenter of point a, twice, and of point b
CellCall(a, b) ==
    /\ ~cellCall.called
    /\ cellCall' = [called |-> TRUE, a |-> a, b |-> b,
                    ofA |-> getGridIdAndCenter(a[1], a[2]),
                    again |-> getGridIdAndCenter(a[1], a[2]),
                    ofB |-> getGridIdAndCenter(b[1], b[2])]
    /\ UNCHANGED <<tierCall, gridRuns>>
    /\ UNCHANGED <<fbVars, rtVars, riskVars, scVars, ctlVars>>

CellReturn ==
    /\ cellCall.called
    /\ cellCall' = NoCellCall
    /\ UNCHANGED <<tierCall, gridRuns>>
    /\ UNCHANGED <<fbVars, rtVars, riskVars, scVars, ctlVars>>

\* ------------------------------------------------- processGrid on a snapshot

\* the moment of the runs on given snapshots
TierNow == 1000

TierCounts == 0..4
TierSafeties == {0, 30, 31, 50, 51, 100}
TierSeverities == {100, 599, 600, 799, 800, 1000}

NoTierCall ==
    [called |-> FALSE, nSos |-> 0, nInc |-> 0, safety |-> 0, severity |-> 0, doc |-> NoGrid]

\* a snapshot of nSos new SOS alerts, the first with the given safety score
\* and the others with 100, and of nInc incidents, the first with the given
\* severity and the others with 0.1, all of the current moment
SosOf(nSos, safety) ==
    {[id |-> k, cell |-> 0, timestamp |-> TierNow,
      safetyScore |-> IF k = 1 THEN safety ELSE 100] : k \in 1..nSos}

IncidentsOf(nInc, severity) ==
    {[id |-> 100 + k, cell |-> 0, timestamp |-> TierNow,
      severity |-> IF k = 1 THEN severity ELSE 100] : k \in 1..nInc}

\* processGrid on that snapshot, without a previous document
TierCall(nSos, nInc, safety, severity) ==
    /\ ~tierCall.called
    /\ tierCall' = [called |-> TRUE, nSos |-> nSos, nInc |-> nInc, safety |-> safety,
                    severity |-> severity,
                    doc |-> ProcessGrid(SosOf(nSos, safety), IncidentsOf(nInc, severity),
                                        NoGrid, TierNow)]
    /\ UNCHANGED <<cellCall, gridRuns>>
    /\ UNCHANGED <<fbVars, rtVars, riskVars, scVars, ctlVars>>

TierReturn ==
    /\ tierCall.called
    /\ tierCall' = NoTierCall
    /\ UNCHANGED <<cellCall, gridRuns>>
    /\ UNCHANGED <<fbVars, rtVars, riskVars, scVars, ctlVars>>

\* ------------------------------------------------- processGrid, await by await

\* the callers of processGrid: the loop of updateRiskScores, and
\* updateGridForLocation called for a new event
Runners == {"pass", "event"}

NoGridRun == [pc |-> "idle", gridId |-> -1, sos |-> {}, inc |-> {}, doc |-> NoGrid]

\* the two find queries and the synchronous code behind them: tier, expiry and
\* the expiry test, which ends in the deleteOne request or goes on to the
\* findOne of the previous document; the run of updateGridForLocation starts
\* once its event is stored
RunRead(r, gridId) ==
    /\ gridRuns[r].pc \in {"idle", "done"}
    /\ r = "event" => \E a \in sosAlerts : a.cell = gridId
    /\ LET sos == SosSnapshot(gridId, now)
           inc == IncidentSnapshot(gridId, now)
           doc == ProcessGrid(sos, inc, NoGrid, now)
       IN gridRuns' = [gridRuns EXCEPT ![r] =
              [pc |-> IF doc.exists THEN "prev" ELSE "delete",
               gridId |-> gridId, sos |-> sos, inc |-> inc, doc |-> doc]]
    /\ UNCHANGED <<cellCall, tierCall>>
    /\ UNCHANGED <<fbVars, rtVars, riskVars, scVars, ctlVars>>

\* const prevGrid = await RiskGrid.findOne({ gridId }) and the score
RunPrev(r) ==
    /\ gridRuns[r].pc = "prev"
    /\ gridRuns' = [gridRuns EXCEPT
          ![r].pc = "upsert",
          ![r].doc = ProcessGrid(gridRuns[r].sos, gridRuns[r].inc,
                                 FindOne(riskGrid, gridRuns[r].gridId), now)]
    /\ UNCHANGED <<cellCall, tierCall>>
    /\ UNCHANGED <<fbVars, rtVars, riskVars, scVars, ctlVars>>

\* the deleteOne or the findOneAndUpdate reaches the collection
RunWrite(r) ==
    /\ gridRuns[r].pc \in {"delete", "upsert"}
    /\ riskGrid' = Persist(riskGrid, gridRuns[r].gridId, gridRuns[r].doc)
    /\ gridRuns' = [gridRuns EXCEPT ![r].pc = "done"]
    /\ lastRun' = NoRun
    /\ UNCHANGED <<now, sosAlerts, incidents, passState, passActive, passQueue,
                   passDone, passFailed>>
    /\ UNCHANGED <<cellCall, tierCall>>
    /\ UNCHANGED <<fbVars, rtVars, scVars, ctlVars>>

FnInit ==
    /\ cellCall = NoCellCall
    /\ tierCall = NoTierCall
    /\ gridRuns = [r \in Runners |-> NoGridRun]

Init == FbInit /\ RtInit /\ RiskInit /\ ScInit /\ CtlInit /\ FnInit

\* ------------------------------------------------- specifications

SpecFallback == Init /\ [][FbNext]_vars

\* the fallback store with a log file that also holds lines cut short
ScanNext ==
    \/ \E a \in AlertIds : PutCall(a)
    \/ \E a \in AlertIds : PutConnect(a)
    \/ \E a \in AlertIds : PutExpire(a)
    \/ TornWrite
    \/ \E g \in Getters, id \in AlertIds : GetCall(g, id)
    \/ \E g \in Getters : GetDel(g)
    \/ \E g \in Getters : GetScan(g)

SpecScan == Init /\ [][ScanNext]_vars

\* getGridIdAndCenter on pairs of points
CellNext ==
    \/ \E a, b \in CellLats \X CellLngs : CellCall(a, b)
    \/ CellReturn

SpecCell == Init /\ [][CellNext]_vars

\* processGrid on snapshots of every size and intensity
TierNext ==
    \/ \E nSos, nInc \in TierCounts, safety \in TierSafeties, severity \in TierSeverities :
          TierCall(nSos, nInc, safety, severity)
    \/ TierReturn

SpecTier == Init /\ [][TierNext]_vars

DispatchNext ==
    \/ InitIO
    \/ \E sock \in Sockets : Connect(sock)
    \/ \E sock \in Sockets, role \in Roles, userId \in AuthorityIds \cup {"none"} :
          RegisterAuthority(sock, role, userId)
    \/ \E sock \in Sockets, role \in Roles :
          RegisterTourist(sock, role, "t1", NoLoc)
    \/ \E sock \in Sockets : Disconnect(sock)
    \/ \E a \in AlertIds, emitThrows \in BOOLEAN, connectOk \in BOOLEAN,
          setOk \in BOOLEAN, expireOk \in BOOLEAN :
          EmitSOSAlert(a, emitThrows, connectOk, setOk, expireOk)

SpecDispatch == Init /\ [][DispatchNext]_vars

\* data.touristId of a connection: the first connection is end-user t1's, the
\* others are end-user t2's
TouristOf(sock) == IF sock = 1 THEN "t1" ELSE "t2"

GeoNext ==
    \/ InitIO
    \/ \E sock \in Sockets : Connect(sock)
    \/ \E sock \in Sockets, location \in TouristLocations :
          RegisterTourist(sock, "tourist", TouristOf(sock), location)
    \/ \E sock \in Sockets, location \in TouristLocations :
          UpdateTouristLocation(sock, location)
    \/ \E sock \in Sockets : ScoreComputed(sock, TRUE, 80)
    \/ \E sock \in Sockets : Disconnect(sock)
    \/ \E valid \in BOOLEAN, area \in TargetAreas \cup {NoArea} :
          EmitAuthorityAlertToTourists(valid, area)

SpecGeo == Init /\ [][GeoNext]_vars

\* authorityBroadcast messages from connections of either role and of none
BroadcastNext ==
    \/ InitIO
    \/ \E sock \in Sockets : Connect(sock)
    \/ RegisterAuthority(1, "authority", "u1")
    \/ \E sock \in Sockets :
          RegisterTourist(sock, "tourist", TouristOf(sock), Loc(50, 20))
    \/ \E sock \in Sockets : ScoreComputed(sock, TRUE, 80)
    \/ \E sock \in Sockets, valid \in BOOLEAN, area \in TargetAreas \cup {NoArea} :
          AuthorityBroadcast(sock, valid, area)

SpecBroadcast == Init /\ [][BroadcastNext]_vars

\* the four event broadcasts while clients of both roles come and go, beside
\* SOS alerts that do use the fallback store
PublishNext ==
    \/ InitIO
    \/ \E sock \in Sockets : Connect(sock)
    \/ RegisterAuthority(1, "authority", "u1")
    \/ \E sock \in Sockets : RegisterTourist(sock, "tourist", TouristOf(sock), NoLoc)
    \/ \E sock \in Sockets : Disconnect(sock)
    \/ \E a \in AlertIds, emitThrows, connectOk, setOk, expireOk \in BOOLEAN :
          EmitSOSAlert(a, emitThrows, connectOk, setOk, expireOk)
    \/ \E event \in EventNames : PublishEvent(event)

SpecPublish == Init /\ [][PublishNext]_vars

\* the score pushes: location updates and the periodic update
PushedScores == {0, 45, 80}

PushNext ==
    \/ InitIO
    \/ \E sock \in Sockets : Connect(sock)
    \/ \E sock \in Sockets, location \in {Loc(50, 20), NoLoc} :
          RegisterTourist(sock, "tourist", TouristOf(sock), location)
    \/ \E sock \in Sockets : UpdateTouristLocation(sock, Loc(50, 20))
    \/ \E sock \in Sockets, ok \in BOOLEAN, score \in PushedScores :
          ScoreComputed(sock, ok, score)
    \/ PeriodicStart
    \/ PeriodicVisit
    \/ \E ok, emitOk \in BOOLEAN, score \in PushedScores : PeriodicScored(ok, emitOk, score)
    \/ PeriodicEnd
    \/ \E sock \in Sockets : Disconnect(sock)

SpecPush == Init /\ [][PushNext]_vars

\* the registries: authorities and tourists register, are scored, disconnect
RegistryNext ==
    \/ InitIO
    \/ \E sock \in Sockets : Connect(sock)
    \/ RegisterAuthority(1, "authority", "u1")
    \/ \E sock \in Sockets, touristId \in {"t1", "t2"} :
          RegisterTourist(sock, "tourist", touristId, Loc(50, 20))
    \/ \E sock \in Sockets : ScoreComputed(sock, TRUE, 45)
    \/ \E sock \in Sockets : Disconnect(sock)

SpecRegistry == Init /\ [][RegistryNext]_vars

\* one periodic run over a registry that was built before the timer fired
PeriodicNext ==
    \/ InitIO
    \/ periodic.pc = "idle" /\ \E sock \in Sockets : Connect(sock)
    \/ periodic.pc = "idle" /\ \E sock \in Sockets, touristId \in {"t1", "t2"},
          location \in {Loc(50, 20), Loc(0, 20), NoLoc} :
             RegisterTourist(sock, "tourist", touristId, location)
    \/ \E sock \in Sockets : ScoreComputed(sock, TRUE, 80)
    \/ periodic.pc = "idle" /\ PeriodicStart
    \/ PeriodicVisit
    \/ \E ok, emitOk \in BOOLEAN : PeriodicScored(ok, emitOk, 45)
    \/ PeriodicEnd

SpecPeriodic == Init /\ [][PeriodicNext]_vars

\* SOS requests against the dispatcher, the fallback store and the risk grid,
\* with one authority connection; the requests fall within one moment of the
\* clock, whose unit is the day
TriggerNext ==
    \/ InitIO
    \/ Connect(1)
    \/ RegisterAuthority(1, "authority", "u1")
    \/ \E a \in AlertIds, entry \in {"ok", "rejected", "failed"},
          safetyScore \in SafetyScores :
          TriggerSave(a, entry, safetyScore)
    \/ \E a \in AlertIds, throws \in BOOLEAN, gridEmitThrows \in BOOLEAN,
          emitThrows \in BOOLEAN, connectOk \in BOOLEAN, setOk \in BOOLEAN,
          expireOk \in BOOLEAN :
          TriggerGridUpdate(a, throws, gridEmitThrows, emitThrows, connectOk, setOk,
                            expireOk)
    \/ \E a \in AlertIds, ok \in BOOLEAN : TriggerLedger(a, ok)

SpecTrigger == Init /\ [][TriggerNext]_vars

\* processGrid on its own: events around cell 0, immediate updates of either
\* cell, and the clock
RiskNext ==
    \/ \E safetyScore \in SafetyScores : SaveSOSAlert(0, safetyScore)
    \/ \E severity \in Severities : SaveIncident(0, severity)
    \/ \E gridId \in GridIds : UpdateGridForLocation(gridId)
    \/ Tick

SpecRisk == Init /\ [][RiskNext]_vars

\* the periodic pass at one moment, over events of both cells
PassNext ==
    \/ \E cell \in GridIds, safetyScore \in SafetyScores : SaveSOSAlert(cell, safetyScore)
    \/ \E cell \in GridIds, severity \in Severities : SaveIncident(cell, severity)
    \/ StartPass
    \/ \E throws \in BOOLEAN : PassStep(throws)
    \/ PassEmpty

SpecPass == Init /\ [][PassNext]_vars

\* passes and event-triggered runs over the days in which cells expire; a pass
\* lasts less than the unit of the clock, the day
EvictNext ==
    \/ \E safetyScore \in SafetyScores : SaveSOSAlert(0, safetyScore)
    \/ \E gridId \in GridIds : UpdateGridForLocation(gridId)
    \/ passState # "running" /\ Tick
    \/ StartPass
    \/ \E throws \in BOOLEAN : PassStep(throws)
    \/ PassEmpty

SpecEvict == Init /\ [][EvictNext]_vars

\* a run of the periodic pass and the run for a new event on the same cell,
\* interleaved at their awaits
RaceNext ==
    \/ \E safetyScore \in SafetyScores : SaveSOSAlert(0, safetyScore)
    \/ \E r \in Runners : RunRead(r, 0)
    \/ \E r \in Runners : RunPrev(r)
    \/ \E r \in Runners : RunWrite(r)

SpecRace == Init /\ [][RaceNext]_vars

\* the ledger tasks of several requests, queued in any order
LedgerNext ==
    \/ \E job \in LedgerJobs : LedgerEnqueue(job)
    \/ \E job \in LedgerJobs : LedgerStart(job)
    \/ \E job \in LedgerJobs, ok \in BOOLEAN : LedgerFinish(job, ok)

SpecLedger == Init /\ [][LedgerNext]_vars

\* ------------------------------------------------- emitSOSAlert hand-off

\* C1: every emitSOSAlert call either emits newSOSAlert while at least one
\* connected authority socket is there to receive it, or hands the alert to
\* handleSOSFallback; no alert is dropped between the two paths.
C1_AtLeastOnceHandOff ==
    lastSOS.path # "none" =>
        \/ lastSOS.path = "emitted" /\ lastSOS.receivers # {}
        \/ lastSOS.path = "fallback" /\ putPc[lastSOS.alert] \in {"done", "connect", "expire"}

\* ------------------------------------------------- geofenced broadcast

\* C6: a targeted authorityAlert goes to an end-user connection only if the
\* distance from its last known location to the target centre is at most the
\* radius (the boundary included), and the delivery carries that distance,
\* rounded, as distanceFromEvent.
C6_GeofenceSafety ==
    lastBroadcast.kind = "targeted" =>
        \A d \in lastBroadcast.deliveries :
            LET location == sockData[d.sock].location
            IN /\ location.has
               /\ DistanceTo(lastBroadcast.area, location) <= lastBroadcast.area.radius
               /\ d.distanceFromEvent = MathRound(DistanceTo(lastBroadcast.area, location))

\* C6 witness: a targeted broadcast delivered to a connection exactly on the
\* boundary while another registered connection, outside, is left out
C6_Witness ==
    /\ lastBroadcast.kind = "targeted"
    /\ \E d \in lastBroadcast.deliveries :
          /\ DistanceTo(lastBroadcast.area, sockData[d.sock].location)
                = lastBroadcast.area.radius
          /\ d.distanceFromEvent = 445
    /\ \E sock \in lastBroadcast.live : \A d \in lastBroadcast.deliveries : d.sock # sock

\* C7: a targeted authorityAlert reaches every live end-user connection whose
\* last known location is within the radius of the target centre, whatever
\* the latitude and longitude of that location.
C7_GeofenceCompleteness ==
    lastBroadcast.kind = "targeted" =>
        \A sock \in lastBroadcast.live :
            LET location == sockData[sock].location
            IN (/\ location.has
                /\ DistanceTo(lastBroadcast.area, location) <= lastBroadcast.area.radius)
               => \E d \in lastBroadcast.deliveries : d.sock = sock

\* ------------------------------------------------- risk grid

\* C8: a cell whose recomputation raises does not stop updateRiskScores: the
\* pass does not abort, and once it is over every other cell of the active set
\* has been recomputed.
C8_PassIsolatesFailures ==
    /\ passState # "aborted"
    /\ passState = "complete" => passActive \ passFailed \subseteq passDone

\* C9 as stated: processGrid run twice in succession for the same cell, on the
\* same event snapshot at the same time, leaves riskScore, riskLevel, tier and
\* expiresAt exactly as the first run left them.
C9_Idempotent ==
    lastRun.repeat =>
        /\ lastRun.after.exists = lastRun.afterFirst.exists
        /\ lastRun.after.riskScore = lastRun.afterFirst.riskScore
        /\ lastRun.after.riskLevel = lastRun.afterFirst.riskLevel
        /\ lastRun.after.tierLevel = lastRun.afterFirst.tierLevel
        /\ lastRun.after.expiresAt = lastRun.afterFirst.expiresAt

\* C9 as amended: the second run leaves the cell present or absent as the first
\* did, with the same tier, radius and expiresAt; its riskScore differs from
\* the first run's by at most a tenth of the distance between the first run's
\* score and the history term the first run used (plus one unit of the
\* thousandths the scores are kept in), and moves away from that history term.
C9_IdempotentUpToHistory ==
    lastRun.repeat =>
        /\ lastRun.after.exists = lastRun.afterFirst.exists
        /\ lastRun.after.tierLevel = lastRun.afterFirst.tierLevel
        /\ lastRun.after.radius = lastRun.afterFirst.radius
        /\ lastRun.after.expiresAt = lastRun.afterFirst.expiresAt
        /\ 10 * Abs(lastRun.after.riskScore - lastRun.afterFirst.riskScore)
              <= Abs(lastRun.afterFirst.riskScore - lastRun.historyFirst) + 10
        /\ lastRun.afterFirst.riskScore >= lastRun.historyFirst
              => lastRun.after.riskScore >= lastRun.afterFirst.riskScore
        /\ lastRun.afterFirst.riskScore <= lastRun.historyFirst
              => lastRun.after.riskScore <= lastRun.afterFirst.riskScore

\* C9 witness: a second run on the same snapshot that moved the riskScore of a
\* cell the first run had persisted over an older document
C9_Witness ==
    /\ lastRun.repeat
    /\ lastRun.after.exists
    /\ lastRun.historyFirst > 0
    /\ lastRun.after.riskScore # lastRun.afterFirst.riskScore

\* C10: every persisted cell has riskScore in [0, 1] and the riskLevel of the
\* band of that score: Very High from 0.8, High from 0.6, Medium from 0.3,
\* Low below.
C10_ScoreAndLevel ==
    \A g \in DOMAIN riskGrid :
        LET riskScore == riskGrid[g].riskScore
            riskLevel == riskGrid[g].riskLevel
        IN /\ 0 <= riskScore /\ riskScore <= 1000
           /\ riskLevel = "Very High" <=> riskScore >= 800
           /\ riskLevel = "High" <=> (riskScore >= 600 /\ riskScore < 800)
           /\ riskLevel = "Medium" <=> (riskScore >= 300 /\ riskScore < 600)
           /\ riskLevel = "Low" <=> riskScore < 300

\* C10 witness: a persisted cell whose weighted sum went past 1 and was clamped
C10_Witness ==
    \E g \in DOMAIN riskGrid :
        /\ riskGrid[g].riskScore = 1000
        /\ riskGrid[g].riskLevel = "Very High"
        /\ lastRun.gridId = g
        /\ lastRun.history >= 500

\* C11: a processGrid run that finds no qualifying event for its cell deletes
\* any persisted document of the cell and upserts nothing.
C11_NoEventsEvicted ==
    \A g \in GridIds :
        (/\ lastRun.gridId = g
         /\ SosSnapshot(g, now) = {}
         /\ IncidentSnapshot(g, now) = {})
        => g \notin DOMAIN riskGrid /\ ~lastRun.after.exists

\* C11 witness: a run without qualifying events that found a document of the
\* cell (its history term was positive) and left none
C11_Witness ==
    \E g \in GridIds :
        /\ lastRun.gridId = g
        /\ SosSnapshot(g, now) = {}
        /\ IncidentSnapshot(g, now) = {}
        /\ lastRun.history > 0
        /\ g \notin DOMAIN riskGrid

\* the floor of the evaluation that wrote a document
FloorOf(doc) == DynamicFloor(doc.tierLevel, doc.expiresAt, doc.lastUpdated)

\* C12: when a Critical (or High) cell is evaluated again at a later time,
\* before expiry, with the same tier and no newer event, the floor of the later
\* evaluation is strictly below that of the earlier one, and the score each
\* evaluation persists is at least its floor.
C12_SlidingFloor ==
    [][\A g \in GridIds :
         /\ (g \in DOMAIN riskGrid' => riskGrid'[g].riskScore >= FloorOf(riskGrid'[g]))
         /\ (/\ g \in DOMAIN riskGrid
             /\ g \in DOMAIN riskGrid'
             /\ riskGrid[g].tierLevel \in {"Critical", "High"}
             /\ riskGrid'[g].tierLevel = riskGrid[g].tierLevel
             /\ riskGrid'[g].expiresAt = riskGrid[g].expiresAt
             /\ riskGrid'[g].lastUpdated > riskGrid[g].lastUpdated)
            => FloorOf(riskGrid'[g]) < FloorOf(riskGrid[g])]_vars

\* C12 witness: a Critical cell evaluated again, later and before expiry, whose
\* persisted score is the floor of that evaluation, below 0.8 and above 0
C12_Witness ==
    \E g \in DOMAIN riskGrid :
        /\ lastRun.gridId = g
        /\ lastRun.history > 0
        /\ riskGrid[g].tierLevel = "Critical"
        /\ riskGrid[g].riskScore = FloorOf(riskGrid[g])
        /\ riskGrid[g].riskScore > 0
        /\ riskGrid[g].riskScore < 800

\* ------------------------------------------------- safety scorer

ScoreNext ==
    \/ \E doc \in GridDocs : StoreThreat("grids", doc)
    \/ \E doc \in ZoneDocs : StoreThreat("zones", doc)
    \/ \E doc \in SosDocs : StoreThreat("sos", doc)
    \/ \E doc \in IncidentDocs : StoreThreat("incidents", doc)
    \/ \E lat \in QueryPoints, fails \in BOOLEAN : CalculateSafetyScore(lat, fails)

SpecScore == Init /\ [][ScoreNext]_vars

NotifyNext ==
    \/ \E oldScore \in Scores, newScore \in Scores : NotifyCall(oldScore, newScore)
    \/ NotifyReturn

SpecNotify == Init /\ [][NotifyNext]_vars

\* C13: in one calculateSafetyScore pass, an SOS alert or incident that lies in
\* the circle (centre, radius) of a risk grid penalised in that pass has no
\* threat entry of its own and adds no penalty: the total penalty is the sum of
\* the impacts of the entries, none of which is such an event.
C13_NoDoubleCounting ==
    (lastScore.called /\ ~lastScore.failed) =>
        LET threats == lastScore.result.allThreats
            Entries == {threats[i] : i \in 1..Len(threats)}
        IN /\ \A e \in Entries :
                e.type \in {"sos_alert", "incident"} =>
                    ~\E g \in Entries : /\ g.type = "risk_grid"
                                        /\ ScDistance(e.pos, g.pos) <= g.radius
           /\ lastScore.result.totalPenalty = TotalPenalty(threats)

\* C13 witness: a pass that penalised a grid, skipped an SOS alert lying within
\* range inside the circle of that grid, and counted an event outside it
C13_Witness ==
    /\ lastScore.called /\ ~lastScore.failed
    /\ \E i \in 1..Len(lastScore.result.allThreats), j \in 1..Len(threatData.sos) :
          LET g == lastScore.result.allThreats[i]
              a == threatData.sos[j]
          IN /\ g.type = "risk_grid"
             /\ ScDistance(a.pos, g.pos) <= g.radius
             /\ WithinCenterSphere(ScDistance(lastScore.lat, a.pos), SOS_RADIUS_M)
    /\ \E i \in 1..Len(lastScore.result.allThreats) :
          lastScore.result.allThreats[i].type = "sos_alert"

\* the position of the only stored threat, and a point's distance from it
SingleThreatPos ==
    (threatData.grids \o threatData.zones \o threatData.sos \o threatData.incidents)[1].pos
DistanceToThreat(lat) == ScDistance(lat, SingleThreatPos)

\* two calculateSafetyScore calls in a row on the same single threat
TwoCallsOneThreat ==
    /\ ThreatCount = 1 /\ threatData' = threatData
    /\ lastScore.called /\ ~lastScore.failed
    /\ lastScore'.called /\ ~lastScore'.failed

\* C14 as stated: with exactly one threat, a query point that is at least as
\* far from the threat as another never gets a higher score than the nearer
\* one (distance(p) <= distance(q) implies scoreAt(q) <= scoreAt(p)).
C14_NonIncreasingInDistance ==
    [][(TwoCallsOneThreat
          /\ DistanceToThreat(lastScore.lat) <= DistanceToThreat(lastScore'.lat))
        => lastScore'.result.safetyScore <= lastScore.result.safetyScore]_vars

\* C14 amended: with exactly one threat, the score never decreases with the
\* distance from it (distance(p) <= distance(q) implies scoreAt(p) <= scoreAt(q)).
C14_NonDecreasingInDistance ==
    [][(TwoCallsOneThreat
          /\ DistanceToThreat(lastScore.lat) <= DistanceToThreat(lastScore'.lat))
        => lastScore.result.safetyScore <= lastScore'.result.safetyScore]_vars

\* C14 witness: a score lowered by the only threat, with a query point farther
\* from the threat whose score is strictly higher
C14_Witness ==
    /\ ThreatCount = 1
    /\ lastScore.called /\ ~lastScore.failed
    /\ lastScore.result.safetyScore < BASE_SCORE
    /\ \E q \in QueryPoints :
          /\ DistanceToThreat(q) > DistanceToThreat(lastScore.lat)
          /\ ComputeSafetyScore(threatData, q).safetyScore > lastScore.result.safetyScore

\* C15: a calculateSafetyScore call in which a query or a computation failed
\* still returns to its caller, and what it returns is the neutral default:
\* safetyScore 80, safetyLevel GOOD, no threats, error = true.
C15_NeverThrows ==
    (lastScore.called /\ lastScore.failed) =>
        /\ lastScore.outcome = "returned"
        /\ lastScore.result.safetyScore = 80
        /\ lastScore.result.safetyLevel = "GOOD"
        /\ lastScore.result.totalThreats = 0
        /\ lastScore.result.threats = << >>
        /\ lastScore.result.error

\* C15 witness: a failed call made while threats were stored
C15_Witness ==
    /\ lastScore.called /\ lastScore.failed
    /\ ThreatCount > 0
    /\ ComputeSafetyScore(threatData, lastScore.lat).safetyScore < 80

\* C16: the score of a call that did not fail is an integer in 0..100, namely
\* 100 minus the sum of the penalties of the counted threats, clamped to
\* [0, 100] and rounded to the nearest integer, and safetyLevel is the band of
\* that score: >= 90 EXCELLENT, >= 70 GOOD, >= 50 FAIR, >= 30 POOR, else CRITICAL.
C16_ScoreAndBand ==
    (lastScore.called /\ ~lastScore.failed) =>
        LET score == lastScore.result.safetyScore
            level == lastScore.result.safetyLevel
            left == 100 * 1000 - TotalPenalty(lastScore.result.allThreats)
            clamped == IF left < 0 THEN 0 ELSE IF left > 100 * 1000 THEN 100 * 1000 ELSE left
        IN /\ score \in 0..100
           /\ score * 1000 - 500 <= clamped /\ clamped < score * 1000 + 500
           /\ (score >= 90) <=> (level = "EXCELLENT")
           /\ (score >= 70 /\ score < 90) <=> (level = "GOOD")
           /\ (score >= 50 /\ score < 70) <=> (level = "FAIR")
           /\ (score >= 30 /\ score < 50) <=> (level = "POOR")
           /\ (score < 30) <=> (level = "CRITICAL")

\* C16 witness: penalties that sum to more than 100 points, score 0, CRITICAL
C16_Witness ==
    /\ lastScore.called /\ ~lastScore.failed
    /\ lastScore.result.totalPenalty > 100 * 1000
    /\ lastScore.result.safetyScore = 0
    /\ lastScore.result.safetyLevel = "CRITICAL"

\* C17: the reasons listed in the description are pairwise distinct and there
\* are at most 3 of them.
C17_AtMostThreeDistinct ==
    lastScore.called =>
        LET reasons == lastScore.result.reasons
        IN /\ Len(reasons) <= 3
           /\ \A i, j \in 1..Len(reasons) : reasons[i] = reasons[j] => i = j

\* C18: shouldNotifyScoreChange(old, new) returns a critical notification when
\* old - new >= 30, a warning when 15 <= old - new < 30, an improvement when
\* new - old >= 30 and null otherwise; 80 -> 45 is critical, 80 -> 68 is none,
\* 40 -> 75 is an improvement.
C18_Thresholds ==
    notifyCall.called =>
        LET old == notifyCall.oldScore
            new == notifyCall.newScore
        IN /\ (old - new >= 30) <=> (notifyCall.type = "critical")
           /\ (old - new >= 15 /\ old - new < 30) <=> (notifyCall.type = "warning")
           /\ (new - old >= 30) <=> (notifyCall.type = "improvement")
           /\ (old - new < 15 /\ new - old < 30) <=> (notifyCall.type = "null")
           /\ (old = 80 /\ new = 45) => notifyCall.type = "critical"
           /\ (old = 80 /\ new = 68) => notifyCall.type = "null"
           /\ (old = 40 /\ new = 75) => notifyCall.type = "improvement"

\* C18 witness: a drop of exactly 30 points answered by a critical notification
C18_Witness ==
    /\ notifyCall.called
    /\ notifyCall.oldScore - notifyCall.newScore = 30
    /\ notifyCall.type = "critical"

\* C19: the previous score that a location update or the periodic update
\* compares the new score with is the score stored for that identity before
\* the push, whatever its value in 0..100, and 80 only when none was stored.
C19_PreviousIsStored ==
    lastPush.kind \in {"update", "periodic"} =>
        /\ lastPush.stored = NotStored => lastPush.previousScore = 80
        /\ lastPush.stored # NotStored => lastPush.previousScore = lastPush.stored

\* C20: of one triggerSOS request, every real-time emit (the grid-updated
\* broadcast and the SOS alert) and every ledger write comes after the HTTP
\* response: in the order of the effects, a "response" of the same request
\* precedes each of them.
C20_EffectsAfterResponse ==
    \A i \in 1..Len(effects) :
        effects[i].kind \in {"gridEmit", "sosEmit", "ledger"} =>
            \E j \in 1..(i - 1) :
                effects[j].alert = effects[i].alert /\ effects[j].kind = "response"

\* the kinds of effect the request of alert a has had so far
EffectKinds(a) == {effects[i].kind : i \in {j \in 1..Len(effects) : effects[j].alert = a}}

\* C21: once triggerSOS has saved the alert, a failure of the cell recompute,
\* of the grid-updated emit, of emitSOSAlert or of the ledger task never leads
\* to next(err), and the request that got past the recompute has sent the
\* success response, exactly once.
C21_FailuresNotSurfaced ==
    \A a \in AlertIds :
        "saved" \in EffectKinds(a) =>
            /\ "next" \notin EffectKinds(a)
            /\ "errorResponse" \notin EffectKinds(a)
            /\ reqPc[a] # "saved" =>
                  Cardinality({i \in 1..Len(effects) :
                                 effects[i] = Effect(a, "response")}) = 1

\* C21 witness: a finished request whose recompute threw, whose live emit fell
\* back to a cache write that failed, and whose ledger task failed
C21_Witness ==
    \E a \in AlertIds :
        /\ reqPc[a] = "done"
        /\ {"saved", "gridError", "response", "ledgerError"} \subseteq EffectKinds(a)
        /\ PutFailed(a)

C22_ScoresOnlyForLiveIdentities ==
    (\A sock \in Sockets : pendingScore[sock].kind = "none") =>
        (DOMAIN touristLastScores) \subseteq (DOMAIN touristSockets)

\* the registry m after sock left the set of identity k: the other keys keep
\* their sets, k keeps the rest of its set and is gone iff the rest is empty
OnlyRemoved(m, after, k, sock) ==
    /\ DOMAIN after \subseteq DOMAIN m
    /\ \A j \in DOMAIN m \ {k} : j \in DOMAIN after /\ after[j] = m[j]
    /\ k \in DOMAIN m =>
          /\ (k \in DOMAIN after) <=> (m[k] \ {sock} # {})
          /\ k \in DOMAIN after => after[k] = m[k] \ {sock}

\* the cached scores after the step: the entry of k is gone iff the set of k
\* became empty, every other entry is as before
ScoresKeptExcept(k, sock) ==
    /\ DOMAIN touristLastScores' \subseteq DOMAIN touristLastScores
    /\ \A j \in DOMAIN touristLastScores :
          IF j = k /\ k \in DOMAIN touristSockets /\ touristSockets[k] \ {sock} = {}
          THEN j \notin DOMAIN touristLastScores'
          ELSE j \in DOMAIN touristLastScores'
               /\ touristLastScores'[j] = touristLastScores[j]

DisconnectFrame(sock) ==
    LET d == sockData[sock]
    IN IF d.userType = "tourist" /\ d.touristId # "none"
       THEN /\ OnlyRemoved(touristSockets, touristSockets', d.touristId, sock)
            /\ ScoresKeptExcept(d.touristId, sock)
            /\ authoritySockets' = authoritySockets
       ELSE IF d.userType = "authority" /\ d.userId # "none"
       THEN /\ OnlyRemoved(authoritySockets, authoritySockets', d.userId, sock)
            /\ touristSockets' = touristSockets
            /\ touristLastScores' = touristLastScores
       ELSE /\ authoritySockets' = authoritySockets
            /\ touristSockets' = touristSockets
            /\ touristLastScores' = touristLastScores

\* C23: when a connection disconnects, exactly that connection leaves the set
\* of its identity; every other connection of the identity and every other
\* identity's set, in both registries, is as before; the identity's entry is
\* deleted iff its set became empty, and its cached last score is deleted in
\* that case only
C23_DisconnectRemovesOnlyThat ==
    [][\A sock \in Sockets :
         (sockState[sock] = "connected" /\ sockState'[sock] = "disconnected")
            => DisconnectFrame(sock)]_vars

\* C23 witness: connection 2 disconnected while its registration as t1 was
\* being scored; connection 1 of t1 is still registered and t1's score cached
C23_Witness ==
    /\ sockState[2] = "disconnected"
    /\ pendingScore[2].touristId = "t1"
    /\ "t1" \in DOMAIN touristSockets /\ touristSockets["t1"] = {1}
    /\ "t1" \in DOMAIN touristLastScores

\* the live connections of an identity, and whether one of them has sent a
\* location
LiveSockets(touristId) ==
    {sock \in touristSockets[touristId] : sockState[sock] = "connected"}

HasKnownLocation(touristId) ==
    \E sock \in LiveSockets(touristId) : sockData[sock].location.has

\* C27: when scoring failed for one identity during a periodic run, the run
\* still completes and every other live identity with a known location has
\* been rescored in that run
C27_FailureIsolated ==
    (periodic.pc = "complete" /\ periodic.failed # {}) =>
        \A touristId \in DOMAIN touristSockets \ periodic.failed :
            HasKnownLocation(touristId) => touristId \in periodic.scored

\* C28: after a periodic run, every identity with a last known location on at
\* least one live connection has been rescored and the new score was pushed
\* as safetyScoreUpdate to all of its live connections
C28_AllLocatedIdentitiesPushed ==
    (periodic.pc = "complete" /\ io) =>
        \A touristId \in DOMAIN touristSockets \ periodic.failed :
            HasKnownLocation(touristId) =>
                /\ touristId \in periodic.scored
                /\ \A sock \in LiveSockets(touristId) :
                      <<touristId, sock>> \in periodic.pushes

\* C29: a scan of the log skips the lines that are not valid JSON: when the
\* log holds a matching SOS_PAYLOAD line, the scan returns that payload,
\* whatever malformed lines stand before or after it, and the call ends with
\* a return value
C29_MalformedLinesSkipped ==
    [][\A g \in Getters :
         (getPc[g] = "scan" /\ getPc'[g] # "scan") =>
            /\ getPc'[g] = "done"
            /\ HasPayloadLine(logFile, getArg[g]) =>
                  /\ getResult'[g] # Null
                  /\ getResult'[g].alertId = getArg[g]]_vars

\* C29 witness: a finished scan returned the payload of a line that stands
\* behind a malformed line in the log
C29_Witness ==
    \E g \in Getters, i, j \in 1..Len(logFile) :
        /\ i < j
        /\ logFile[i] = MalformedLine
        /\ LineMatches(logFile[j], getArg[g])
        /\ getPc[g] = "done" /\ getInfo[g].src = "log"
        /\ getResult[g] # Null /\ getResult[g].alertId = getArg[g]

ClaimedTier(count, severity, safety) ==
    IF count > 5 \/ severity >= 800 \/ safety <= 30 THEN <<"Critical", 1500, 30>>
    ELSE IF count > 2 \/ severity >= 600 \/ safety <= 50 THEN <<"High", 1000, 14>>
    ELSE <<"Standard", 500, 7>>

ExpiryOf(gridId) ==
    LET sos == SosSnapshot(gridId, now)
        inc == IncidentSnapshot(gridId, now)
        latest == SetMax({a.timestamp : a \in sos} \cup {i.timestamp : i \in inc}, 0)
        claimed == ClaimedTier(Cardinality(sos) + Cardinality(inc),
                               SetMax({i.severity : i \in inc}, 0),
                               SetMin({a.safetyScore : a \in sos}, 100))
    IN latest + claimed[3]

\* C26: a processGrid run computes expiry = latest contributing event time +
\* tier duration; when the current time is past it the run deletes the cell
\* and writes nothing else, otherwise it upserts the cell with expiresAt equal
\* to that expiry, so the cell it leaves never expires before the run's time
C26_ExpiryAndEviction ==
    [][lastRun'.gridId \in GridIds =>
         LET gridId == lastRun'.gridId
         IN /\ \A other \in GridIds \ {gridId} :
                  FindOne(riskGrid', other) = FindOne(riskGrid, other)
            /\ IF now > ExpiryOf(gridId)
               THEN gridId \notin DOMAIN riskGrid'
               ELSE /\ gridId \in DOMAIN riskGrid'
                    /\ riskGrid'[gridId].expiresAt = ExpiryOf(gridId)
                    /\ riskGrid'[gridId].expiresAt >= now]_vars

\* C26 witness: a run found events in its scan, all past their expiry, and
\* left no cell behind
C26_Witness ==
    /\ lastRun.gridId \in GridIds
    /\ SosSnapshot(lastRun.gridId, now) \cup IncidentSnapshot(lastRun.gridId, now) # {}
    /\ now > ExpiryOf(lastRun.gridId)
    /\ lastRun.gridId \notin DOMAIN riskGrid

\* C31: after any sequence of connect, registerAuthority, registerTourist and
\* disconnect events, every socket held in authoritySockets or touristSockets
\* is a connected socket
C31_RegistriesHoldLiveSockets ==
    /\ \A userId \in DOMAIN authoritySockets :
          \A sock \in authoritySockets[userId] : sockState[sock] = "connected"
    /\ \A touristId \in DOMAIN touristSockets :
          \A sock \in touristSockets[touristId] : sockState[sock] = "connected"

\* C38: an authorityBroadcast from a connection whose current role is not
\* authority delivers no authorityAlert, changes no registry and is answered
\* with broadcastError; one from an authority without type, title or message
\* delivers nothing and is answered with broadcastError too
C38_OnlyAuthoritiesBroadcast ==
    [][lastBroadcast'.sender # 0 =>
         LET sender == lastBroadcast'.sender
         IN /\ sockData[sender].userType # "authority" =>
                  /\ lastBroadcast'.deliveries = {}
                  /\ lastBroadcast'.reply = "broadcastError"
                  /\ authoritySockets' = authoritySockets
                  /\ touristSockets' = touristSockets
                  /\ touristLastScores' = touristLastScores
                  /\ rooms' = rooms /\ sockData' = sockData
            /\ (sockData[sender].userType = "authority" /\ ~lastBroadcast'.valid) =>
                  /\ lastBroadcast'.deliveries = {}
                  /\ lastBroadcast'.reply = "broadcastError"]_vars

\* C38 witness: a connection registered first as authority and now as
\* end-user sent a complete broadcast while end-users were listening, and got
\* broadcastError
C38_Witness ==
    /\ lastBroadcast.sender = 1
    /\ sockData[1].userType = "tourist" /\ 1 \in rooms.authorities
    /\ lastBroadcast.valid
    /\ lastBroadcast.live # {}
    /\ lastBroadcast.reply = "broadcastError"
    /\ lastBroadcast.deliveries = {}

\* C39: emitSOSStatusUpdate, emitDangerZoneAdded, emitIncidentReported and
\* emitRiskGridUpdated never write to the fallback cache or the fallback log,
\* with or without clients; the first three reach the connections of the
\* authorities room only, emitRiskGridUpdated reaches every connected client
C39_EventsBypassFallback ==
    [][lastBroadcast'.kind \in EventNames =>
         /\ redisStore' = redisStore
         /\ logFile' = logFile
         /\ {d.sock : d \in lastBroadcast'.deliveries} =
               IF lastBroadcast'.kind = "riskGridUpdated"
               THEN {sock \in Sockets : sockState[sock] = "connected"}
               ELSE {sock \in rooms.authorities : sockState[sock] = "connected"}]_vars

\* C39 witness: an incident was published while an end-user was connected and
\* no authority was; nobody received it, and the fallback store holds only the
\* SOS alert stored before
C39_Witness ==
    /\ lastBroadcast.kind = "incidentReported"
    /\ lastBroadcast.deliveries = {}
    /\ \E sock \in Sockets : sockState[sock] = "connected" /\ sock \in rooms.tourists
    /\ Len(logFile) > 0

\* every stored event is older than the run that last wrote the cell: no event
\* was added since that run
NoEventSince(gridId) ==
    \A e \in sosAlerts \cup incidents : e.timestamp < riskGrid[gridId].lastUpdated

\* C33: with no new event since the previous run on a persisted cell, a
\* processGrid run deletes the cell only when the current time is past the
\* expiresAt the previous run stored, and a run that keeps the cell never
\* moves its expiresAt earlier
C33_NoEarlyEviction ==
    [][\A gridId \in DOMAIN riskGrid :
         NoEventSince(gridId) =>
            IF gridId \in DOMAIN riskGrid'
            THEN riskGrid'[gridId].expiresAt >= riskGrid[gridId].expiresAt
            ELSE now > riskGrid[gridId].expiresAt]_vars

\* C34: the active set of an updateRiskScores pass holds every cell persisted
\* when the pass starts, and when a pass completes without error no persisted
\* cell of its active set has expiresAt earlier than the time of the pass: the
\* cells whose events have all aged past their duration were deleted by it
C34_PassEvictsExpired ==
    [][/\ (passState # "running" /\ passState' = "running")
            => DOMAIN riskGrid \subseteq passActive'
       /\ (passState = "running" /\ passState' = "complete")
            => \A gridId \in passActive \cap DOMAIN riskGrid' :
                  riskGrid'[gridId].expiresAt >= now]_vars

\* C34 witness: a complete pass whose active set held cell 0 only because the
\* cell was persisted (its events are older than the lookback) deleted it
C34_Witness ==
    /\ passState = "complete"
    /\ passActive = {0} /\ passDone = {0}
    /\ sosAlerts # {}
    /\ \A a \in sosAlerts : a.timestamp < now - LOOKBACK_DAYS
    /\ 0 \notin DOMAIN riskGrid

\* C32: when a run of the pass that read its snapshot before a new event was
\* stored and the run triggered by that event, on the same cell, have both
\* completed, the cell is persisted as long as the new event is unexpired
C32_RaceKeepsCell ==
    \A a \in sosAlerts :
        ( /\ gridRuns["pass"].pc = "done" /\ gridRuns["event"].pc = "done"
          /\ gridRuns["pass"].gridId = a.cell /\ gridRuns["event"].gridId = a.cell
          /\ a \in gridRuns["event"].sos
          /\ a \notin gridRuns["pass"].sos
          /\ now <= a.timestamp + DurationDays("Standard") )
        => a.cell \in DOMAIN riskGrid

\* the location runPeriodicSafetyScoreUpdate takes for an identity, given the
\* registry: the one stored on the first socket of its Set
PeriodicLocation(order, data, touristId) ==
    data[order[OrderIndex(order, touristId)].sockets[1]].location

\* C35: once a connection of an end-user identity has reported a location
\* (registerTourist or updateTouristLocation), that location is the one used
\* for the identity: by runPeriodicSafetyScoreUpdate, and by the geofence
\* filter of emitAuthorityAlertToTourists for each of its live connections
C35_LatestLocationPerIdentity ==
    [][\A sock \in Sockets :
         ( /\ sockData'[sock].userType = "tourist"
           /\ sockData'[sock].location.has
           /\ sockData'[sock].location # sockData[sock].location )
         => LET touristId == sockData'[sock].touristId
                reported == sockData'[sock].location
            IN /\ PeriodicLocation(touristOrder', sockData', touristId) = reported
               /\ \A other \in touristSockets'[touristId] :
                     sockState'[other] = "connected"
                        => sockData'[other].location = reported]_vars

\* the position of a job in the queue
QueuePos(job) == CHOOSE i \in 1..Len(ledger.queue) : ledger.queue[i] = job

\* C37: at most one contract.logAlert write is in flight at a time; a queued
\* write has started only if every write queued before it has finished, with
\* success or with an error, and no queued write is passed over because an
\* earlier one failed
C37_LedgerSerialised ==
    /\ Cardinality({job \in LedgerJobs : ledger.state[job] = "running"}) <= 1
    /\ \A job \in LedgerJobs : ledger.state[job] # "skipped"
    /\ \A job \in LedgerJobs :
          ledger.state[job] \in {"running", "ok", "failed"} =>
             \A i \in 1..(QueuePos(job) - 1) :
                ledger.state[ledger.queue[i]] \in {"ok", "failed"}

\* C37 witness: the write queued first failed, the one queued behind it ran
\* after that and went through
C37_Witness ==
    /\ Len(ledger.queue) >= 2
    /\ ledger.state[ledger.queue[1]] = "failed"
    /\ ledger.state[ledger.queue[2]] = "ok"

\* one risk cell is stored, one that the scorer penalises within its monitoring
\* range, and besides it only SOS alerts and incidents that lie inside its
\* coverage circle
OneCellAndItsEvents ==
    /\ Len(threatData.grids) = 1 /\ threatData.zones = << >>
    /\ threatData.grids[1].riskScore > 100
    /\ Len(threatData.sos) + Len(threatData.incidents) >= 1
    /\ LET cell == threatData.grids[1]
       IN /\ \A i \in 1..Len(threatData.sos) :
                ScDistance(threatData.sos[i].pos, cell.pos) <= GridRadius(cell)
          /\ \A i \in 1..Len(threatData.incidents) :
                ScDistance(threatData.incidents[i].pos, cell.pos) <= GridRadius(cell)

\* C36: for one risk cell and the raw incidents and SOS alerts inside its
\* coverage circle, of two calculateSafetyScore calls the one whose query point
\* is at least as far from the cell centre never has the larger total penalty,
\* the boundary of the monitoring range (radius + 3000 m) included.
C36_PenaltyMonotoneInDistance ==
    [][(/\ OneCellAndItsEvents /\ threatData' = threatData
        /\ lastScore.called /\ ~lastScore.failed
        /\ lastScore'.called /\ ~lastScore'.failed
        /\ ScDistance(lastScore.lat, threatData.grids[1].pos)
             <= ScDistance(lastScore'.lat, threatData.grids[1].pos))
        => lastScore'.result.totalPenalty <= lastScore.result.totalPenalty]_vars

====
